---- MODULE Spec2Model ----
(***************************************************************************)
(* Model of the ruin world server: the shared movement evaluator, the      *)
(* WorldRoom runtime (join, input intake, tick, leave, auto-save,          *)
(* dispose), the character rows it persists, and the matchmaking of        *)
(* 'world' rooms.                                                          *)
(***************************************************************************)
EXTENDS Integers, Sequences, FiniteSets, TLC

(***************************************************************************)
(* Bounds of the model.                                                    *)
(***************************************************************************)
\* largest sequence number a client sends in Spec
MaxSeq == 2
\* number of input messages the clients of Spec send, over all sessions
MaxInputs == 2
\* largest sequence number the flooding client of SpecFlood sends
MaxFloodSeq == 11
\* number of clients the matchmaker of SpecRegistry has seated at one time
RegMaxClients == 9
\* SpecHalves: the largest sequence number a client sends, in halves
MaxHalfSeq == 4
\* SpecReconcile: the largest sequence number in the client's prediction buffer
MaxBufferSeq == 3
\* SpecIdleTimed: how many half check intervals the clock runs (64: 16 minutes)
MaxTimedSteps == 64
\* SpecRegistry: how many clients have a joinOrCreate under way at one time
MaxJoining == 2
\* SpecRegistry: how many clients of one room have asked for another world
\* than the room's
MaxStrangers == 1
\* SpecMove: the largest number of tiles of a map the evaluator is called with
MaxMapTiles == 6
\* SpecBuffer: how many predictions the scene adds to its buffer
MaxPredictions == 62
\* SpecBuffer: by how many inputs the acknowledgement of a patch lags behind
\* the last input sent at most
MaxAckLag == 2

(***************************************************************************)
(* Tile types and the town map.                                            *)
(***************************************************************************)
GROUND == 0
WALL == 1
WATER == 2

PASSABLE_TILES == {GROUND}

G == GROUND
W == WALL
T == WATER

TOWN_MAP ==
  [width |-> 32, height |-> 32, spawnX |-> 16, spawnY |-> 16,
   tiles |-> <<
    <<W, W, W, W, W, W, W, W, W, W, W, W, W, W, W, W, W, W, W, W, W, W, W, W, W, W, W, W, W, W, W, W>>,
    <<W, G, G, G, G, G, G, G, G, G, G, G, G, G, G, G, G, G, G, G, G, G, G, G, G, G, G, G, G, G, G, W>>,
    <<W, G, G, G, G, G, G, G, G, G, G, G, G, G, G, G, G, G, G, G, G, G, G, G, G, G, G, G, G, G, G, W>>,
    <<W, G, G, G, G, G, G, G, G, G, G, G, G, G, G, G, G, G, G, G, G, G, G, G, G, G, G, G, G, G, G, W>>,
    <<W, G, G, G, G, G, G, G, G, G, G, G, G, G, G, G, G, G, G, G, G, G, G, G, G, G, G, G, G, G, G, W>>,
    <<W, G, G, G, G, W, W, W, W, W, G, G, G, G, G, G, G, G, G, G, G, G, G, G, G, G, G, G, G, G, G, W>>,
    <<W, G, G, G, G, W, G, G, G, W, G, G, G, G, G, G, G, G, G, G, G, G, G, G, G, G, G, G, G, G, G, W>>,
    <<W, G, G, G, G, W, G, G, G, W, G, G, G, G, G, G, G, G, G, G, G, G, G, G, G, G, G, G, G, G, G, W>>,
    <<W, G, G, G, G, W, W, W, W, W, G, G, G, G, G, G, G, G, G, G, G, G, G, G, G, G, G, G, G, G, G, W>>,
    <<W, G, G, G, G, G, G, G, G, G, G, G, G, G, G, G, G, G, G, G, W, G, G, G, G, G, G, G, G, G, G, W>>,
    <<W, G, G, G, G, G, G, G, G, G, G, G, G, G, G, G, G, G, G, G, W, G, W, G, G, G, G, G, G, G, G, W>>,
    <<W, G, G, G, G, G, G, G, G, G, G, G, G, G, G, G, G, G, G, G, G, W, G, G, G, G, G, G, G, G, G, W>>,
    <<W, G, G, G, G, G, G, G, G, G, G, G, G, G, G, G, G, G, G, G, G, G, G, G, G, G, G, G, G, G, G, W>>,
    <<W, G, G, G, G, G, G, G, G, G, G, G, G, G, G, G, G, G, G, G, G, G, G, G, G, G, G, G, G, G, G, W>>,
    <<W, G, G, G, G, G, G, G, G, G, G, G, G, G, G, G, G, G, G, G, G, G, G, G, G, G, G, G, G, G, G, W>>,
    <<W, G, G, G, G, G, G, G, G, G, G, G, G, G, G, G, G, G, G, G, G, G, G, G, G, G, G, G, G, G, G, W>>,
    <<W, G, G, G, G, G, G, G, G, G, G, G, G, G, G, G, G, G, G, G, G, G, G, G, G, G, G, G, G, G, G, W>>,
    <<W, G, G, G, G, G, G, G, G, G, G, G, G, G, G, G, G, G, G, G, G, G, G, G, G, G, G, G, G, G, G, W>>,
    <<W, G, G, G, G, G, G, G, G, G, G, G, G, G, G, G, G, G, G, G, G, G, G, G, G, G, G, G, G, G, G, W>>,
    <<W, G, G, G, G, G, G, G, G, G, G, G, G, G, G, G, G, G, G, G, G, G, G, G, T, T, T, G, G, G, G, W>>,
    <<W, G, G, G, G, G, G, G, G, G, G, G, G, G, G, G, G, G, G, G, G, G, G, G, T, T, T, G, G, G, G, W>>,
    <<W, G, G, G, G, G, G, G, G, G, G, G, G, G, G, G, G, G, G, G, G, G, G, G, T, T, T, G, G, G, G, W>>,
    <<W, G, G, G, G, G, G, G, G, G, G, G, G, G, G, G, G, G, G, G, G, G, G, G, G, G, G, G, G, G, G, W>>,
    <<W, G, G, G, G, G, G, G, G, G, G, G, G, G, G, G, G, G, G, G, G, G, G, G, G, G, G, G, G, G, G, W>>,
    <<W, G, G, G, G, G, G, G, G, G, G, G, G, G, G, G, G, G, G, G, G, G, G, G, G, G, G, G, G, G, G, W>>,
    <<W, G, G, G, G, G, G, G, G, G, G, G, G, G, G, G, G, G, G, G, G, G, G, G, G, G, G, G, G, G, G, W>>,
    <<W, G, G, G, G, G, G, G, G, G, G, G, G, G, G, G, G, G, G, G, G, G, G, G, G, G, G, G, G, G, G, W>>,
    <<W, G, G, G, G, G, G, G, G, G, G, G, G, G, G, G, G, G, G, G, G, G, G, G, G, G, G, G, G, G, G, W>>,
    <<W, G, G, G, G, G, G, G, G, G, G, G, G, G, G, G, G, G, G, G, G, G, G, G, G, G, G, G, G, G, G, W>>,
    <<W, G, G, G, G, G, G, G, G, G, G, G, G, G, G, G, G, G, G, G, G, G, G, G, G, G, G, G, G, G, G, W>>,
    <<W, G, G, G, G, G, G, G, G, G, G, G, G, G, G, G, G, G, G, G, G, G, G, G, G, G, G, G, G, G, G, W>>,
    <<W, W, W, W, W, W, W, W, W, W, W, W, W, W, W, W, W, W, W, W, W, W, W, W, W, W, W, W, W, W, W, W>>
   >>]

\* tiles[y][x] of the source, which is 0-based
tileAt(map, x, y) == map.tiles[y + 1][x + 1]

(***************************************************************************)
(* Directions and the movement evaluator.                                  *)
(***************************************************************************)
Direction == {"up", "down", "left", "right"}

\* the deltas with UP and DOWN exchanged
DIRECTION_DELTAS_UpIsDown ==
  [up    |-> [dx |-> 0, dy |-> 1],
   down  |-> [dx |-> 0, dy |-> -1],
   left  |-> [dx |-> -1, dy |-> 0],
   right |-> [dx |-> 1, dy |-> 0]]

DIRECTION_DELTAS ==
  [up    |-> [dx |-> 0, dy |-> -1],
   down  |-> [dx |-> 0, dy |-> 1],
   left  |-> [dx |-> -1, dy |-> 0],
   right |-> [dx |-> 1, dy |-> 0]]

isValidDirection(value) == value \in Direction

\* tryMove without its passability check
tryMoveBoundsOnly(map, currentX, currentY, direction) ==
  LET dx == DIRECTION_DELTAS[direction].dx
      dy == DIRECTION_DELTAS[direction].dy
      targetX == currentX + dx
      targetY == currentY + dy
  IN  IF targetX < 0 \/ targetX >= map.width \/ targetY < 0 \/ targetY >= map.height
        THEN [x |-> currentX, y |-> currentY, moved |-> FALSE]
      ELSE [x |-> targetX, y |-> targetY, moved |-> TRUE]

tryMove(map, currentX, currentY, direction) ==
  LET dx == DIRECTION_DELTAS[direction].dx
      dy == DIRECTION_DELTAS[direction].dy
      targetX == currentX + dx
      targetY == currentY + dy
  IN  IF targetX < 0 \/ targetX >= map.width \/ targetY < 0 \/ targetY >= map.height
        THEN [x |-> currentX, y |-> currentY, moved |-> FALSE]
      ELSE IF tileAt(map, targetX, targetY) \notin PASSABLE_TILES
        THEN [x |-> currentX, y |-> currentY, moved |-> FALSE]
      ELSE [x |-> targetX, y |-> targetY, moved |-> TRUE]

processPlayerInput(map, currentX, currentY, direction) ==
  tryMove(map, currentX, currentY, direction)

(***************************************************************************)
(* Sessions, accounts, tokens and client messages.                         *)
(***************************************************************************)
Sessions == {"s1", "s2"}
Accounts == {"acctA", "acctB"}

\* the world save the room of Spec represents, and its owner row in world_saves
RoomWorldId == "w1"
WorldOwner == [w1 |-> "acctA", w2 |-> "acctB"]

\* a token as verifyToken sees it: a payload, or something that does not verify
Tokens ==
  {[valid |-> TRUE, sub |-> "acctA", email |-> <<"a">>],
   [valid |-> TRUE, sub |-> "acctB", email |-> <<"b">>],
   [valid |-> FALSE, sub |-> "none", email |-> <<>>]}

verifyToken(token) ==
  IF token.valid THEN [ok |-> TRUE, sub |-> token.sub, email |-> token.email]
  ELSE [ok |-> FALSE, sub |-> "none", email |-> <<>>]

\* options.characterName: strings are sequences of characters
CharacterNames == {<<" ">>, <<" ", "R", " ">>}

RECURSIVE trimStart(_)
trimStart(str) ==
  IF str = <<>> THEN <<>>
  ELSE IF Head(str) = " " THEN trimStart(Tail(str)) ELSE str

RECURSIVE trimEnd(_)
trimEnd(str) ==
  IF str = <<>> THEN <<>>
  ELSE IF str[Len(str)] = " " THEN trimEnd(SubSeq(str, 1, Len(str) - 1)) ELSE str

trim(str) == trimEnd(trimStart(str))

\* the name taken from the options without the fallback to the email
newCharacterNameNoFallback(characterName, email) == trim(characterName)

\* the name a new character gets
newCharacterName(characterName, email) ==
  IF Len(trim(characterName)) > 0 THEN trim(characterName) ELSE email

\* directions and sequence numbers the clients of Spec send
InputDirections == {"up"}
InputMessages ==
  {[seqType |-> "number", sequenceNumber |-> n, direction |-> d] :
     n \in 0..MaxSeq, d \in InputDirections}
  \cup {[seqType |-> "undefined", sequenceNumber |-> 0, direction |-> "up"],
        [seqType |-> "number", sequenceNumber |-> 1, direction |-> "jump"]}

(***************************************************************************)
(* Character rows of the room's world.                                     *)
(***************************************************************************)
NoCharacter == [exists |-> FALSE]

CharacterRow(id, name, x, y) ==
  [exists |-> TRUE, id |-> id, name |-> name, position_x |-> x, position_y |-> y]

characterIdOf(accountId) == <<"char", accountId>>

\* rows left by earlier lives of the room: positions players walked to
InitCharacterRows ==
  {[a \in Accounts |-> NoCharacter],
   [a \in Accounts |-> IF a = "acctA" THEN CharacterRow(characterIdOf(a), <<"a">>, 1, 1)
                       ELSE NoCharacter],
   [a \in Accounts |-> IF a = "acctA" THEN CharacterRow(characterIdOf(a), <<"a">>, 1, 1)
                       ELSE CharacterRow(characterIdOf(a), <<"R">>, 23, 20)]}

(***************************************************************************)
(* State.                                                                  *)
(***************************************************************************)
VARIABLES
  players,              \* WorldState.players: sessionId -> PlayerState
  playerOrder,          \* iteration order of WorldState.players
  inputQueues,          \* sessionId -> queued InputMessages
  accountIdBySession,
  characterIdBySession,
  joinCounter,
  hostAccountId,
  autoSaveInterval,     \* "set" while the auto-save timer is armed, else "null"
  saving,
  disposed,             \* the room has been disposed by the framework
  conn,                 \* per session: where its client / its onJoin stands
  joining,              \* per session: the locals of its suspended onJoin
  closeCode,            \* per session: code the server closed it with (0: none)
  lastMoved,            \* per session: result.moved of its last processed input
  characters,           \* characters table rows of the room's world, by account
  pendingSaves,         \* saveAll calls in flight, oldest first
  inputLog,             \* the last line handleInput wrote to the room log
  inputsSent,           \* input messages the clients have sent so far
  rooms,                \* matchmaker: live 'world' rooms
  buffer,               \* client: PredictionBuffer.buffer
  reconciled,           \* client: what its last reconcile returned
  hostSessionId,        \* session of the connected host, "null" when offline
  lastInputTime,        \* sessionId -> time of the last input
  idleWarned,           \* sessions warned since their last input
  now,                  \* Date.now()
  sent,                 \* per session: messages the room sent to its client
  lastIdleCheck,        \* time at which the idle-check timer last fired
  simulationInterval,   \* "set" while the tick timer is armed, else "null"
  idleCheckInterval,    \* "set" while the idle-check timer is armed, else "null"
  saveLog,              \* the last line a settled save wrote to the room log
  joinResult,           \* matchmaker: how the last joinOrCreate ended
  moveMap,              \* movement evaluator: the map it is called with
  movePos,              \* movement evaluator: the position it is called from
  moveLast,             \* movement evaluator: its last call and what it returned
  worldData,            \* world_saves.world_data of the room's world
  txn                   \* the saveAll call being followed statement by statement

vars ==
  <<players, playerOrder, inputQueues, accountIdBySession, characterIdBySession,
    joinCounter, hostAccountId, autoSaveInterval, saving, disposed, conn, joining,
    closeCode, lastMoved, characters, pendingSaves, inputLog, inputsSent, rooms,
    buffer, reconciled, hostSessionId, lastInputTime, idleWarned, now, sent,
    lastIdleCheck, simulationInterval, idleCheckInterval, saveLog, joinResult,
    moveMap, movePos, moveLast, worldData, txn>>

roomVars ==
  <<players, playerOrder, inputQueues, accountIdBySession, characterIdBySession,
    joinCounter, hostAccountId, autoSaveInterval, saving, disposed, conn, joining,
    closeCode, lastMoved, characters, pendingSaves, inputLog>>

clientVars == <<buffer, reconciled>>

idleVars == <<hostSessionId, lastInputTime, idleWarned, now, sent>>

moveVars == <<moveMap, movePos, moveLast>>

dbVars == <<worldData, txn>>

timerVars == <<simulationInterval, idleCheckInterval>>

otherVars == <<lastIdleCheck, timerVars, saveLog, joinResult, moveVars, dbVars>>

\* Map.set and Map.delete
MapSet(m, k, v) == [j \in DOMAIN m \cup {k} |-> IF j = k THEN v ELSE m[j]]
MapDelete(m, k) == [j \in DOMAIN m \ {k} |-> m[j]]
EmptyMap == [j \in {} |-> 0]

RECURSIVE seqWithout(_, _)
seqWithout(seq, k) ==
  IF seq = <<>> THEN <<>>
  ELSE IF Head(seq) = k THEN seqWithout(Tail(seq), k)
  ELSE <<Head(seq)>> \o seqWithout(Tail(seq), k)

\* MapSchema keeps insertion order; setting an existing key keeps its place
orderSet(order, k) ==
  IF \E i \in 1..Len(order) : order[i] = k THEN order ELSE Append(order, k)

PlayerState(sessionId, accountId, name, x, y) ==
  [sessionId |-> sessionId, name |-> name, accountId |-> accountId,
   x |-> x, y |-> y, lastProcessedSequenceNumber |-> 0]

\* no client-side prediction and no idle bookkeeping
NoReconcile == [valid |-> FALSE, x |-> 0, y |-> 0]

\* JSON.stringify of a world data object
JSONstringify(data) == <<"{mapId:", data.mapId, ",version:", data.version, "}">>

\* world_saves holds no row of the room's world
NoWorldRow == <<>>

\* no saveAll call is being followed
NoTxn ==
  [phase |-> "idle", worldData |-> <<>>, characters |-> <<>>, todo |-> <<>>,
   newWorldData |-> <<>>, newRows |-> <<>>, client |-> "none", locked |-> FALSE]

\* onCreate has armed the tick timer and the idle-check timer; no idle check
\* has fired, no save has settled, nobody has asked to join, the evaluator has
\* not been called on its own, no saveAll is being followed
OtherInit ==
  /\ lastIdleCheck = 0
  /\ simulationInterval = "set"
  /\ idleCheckInterval = "set"
  /\ saveLog = "none"
  /\ joinResult = [outcome |-> "none", code |-> 0]
  /\ moveMap = [width |-> 1, height |-> 1, spawnX |-> 0, spawnY |-> 0,
                tiles |-> <<<<GROUND>>>>]
  /\ movePos = [x |-> 0, y |-> 0]
  /\ moveLast = [called |-> FALSE]
  /\ worldData = JSONstringify([mapId |-> "town", version |-> 0])
  /\ txn = NoTxn

OutsideInit ==
  /\ OtherInit
  /\ buffer = <<>>
  /\ reconciled = NoReconcile
  /\ hostSessionId = "null"
  /\ lastInputTime = EmptyMap
  /\ idleWarned = {}
  /\ now = 0
  /\ sent = EmptyMap

\* state right after a successful onCreate of the room for RoomWorldId
RoomInit ==
  /\ players = EmptyMap
  /\ playerOrder = <<>>
  /\ inputQueues = EmptyMap
  /\ accountIdBySession = EmptyMap
  /\ characterIdBySession = EmptyMap
  /\ joinCounter = 0
  /\ hostAccountId = WorldOwner[RoomWorldId]
  /\ autoSaveInterval = "set"
  /\ saving = FALSE
  /\ disposed = FALSE
  /\ conn = [s \in Sessions |-> "none"]
  /\ joining = EmptyMap
  /\ closeCode = [s \in Sessions |-> 0]
  /\ lastMoved = EmptyMap
  /\ pendingSaves = <<>>
  /\ inputLog = "none"

(***************************************************************************)
(* WorldRoom.handleInput                                                   *)
(***************************************************************************)
maxClients == 8

Connected(s) == conn[s] \in {"getCharacter", "createCharacter", "joined", "kicked"}

\* handleInput without the stale check
HandleInputNoStaleCheck(sessionId, message) ==
  /\ ~disposed
  /\ conn[sessionId] = "joined"
  /\ IF message.seqType # "number" \/ ~isValidDirection(message.direction)
       THEN /\ inputLog' = "Invalid input message - bad shape"
            /\ UNCHANGED inputQueues
     ELSE IF sessionId \notin DOMAIN players
       THEN UNCHANGED <<inputQueues, inputLog>>
     ELSE IF sessionId \in DOMAIN inputQueues
       THEN /\ inputQueues' =
                 [inputQueues EXCEPT ![sessionId] =
                    Append(@, [sequenceNumber |-> message.sequenceNumber,
                               direction |-> message.direction])]
            /\ UNCHANGED inputLog
     ELSE UNCHANGED <<inputQueues, inputLog>>
  /\ UNCHANGED <<players, playerOrder, accountIdBySession, characterIdBySession,
                 joinCounter, hostAccountId, autoSaveInterval, saving, disposed,
                 conn, joining, closeCode, lastMoved, characters, pendingSaves,
                 rooms>>

\* handleInput putting the input in front of the queue (queue.unshift)
HandleInputUnshift(sessionId, message) ==
  /\ ~disposed
  /\ conn[sessionId] = "joined"
  /\ IF message.seqType # "number" \/ ~isValidDirection(message.direction)
       THEN /\ inputLog' = "Invalid input message - bad shape"
            /\ UNCHANGED inputQueues
     ELSE IF sessionId \notin DOMAIN players
       THEN UNCHANGED <<inputQueues, inputLog>>
     ELSE IF message.sequenceNumber <= players[sessionId].lastProcessedSequenceNumber
       THEN /\ inputLog' = "Stale input rejected"
            /\ UNCHANGED inputQueues
     ELSE IF sessionId \in DOMAIN inputQueues
       THEN /\ inputQueues' =
                 [inputQueues EXCEPT ![sessionId] =
                    <<[sequenceNumber |-> message.sequenceNumber,
                       direction |-> message.direction]>> \o @]
            /\ UNCHANGED inputLog
     ELSE UNCHANGED <<inputQueues, inputLog>>
  /\ UNCHANGED <<players, playerOrder, accountIdBySession, characterIdBySession,
                 joinCounter, hostAccountId, autoSaveInterval, saving, disposed,
                 conn, joining, closeCode, lastMoved, characters, pendingSaves,
                 rooms>>

\* handleInput opening a queue for a session that has no player
handleInputOpensQueue(sessionId, message) ==
  /\ IF message.seqType # "number" \/ ~isValidDirection(message.direction)
       THEN /\ inputLog' = "Invalid input message - bad shape"
            /\ UNCHANGED inputQueues
     ELSE IF sessionId \notin DOMAIN players
       THEN /\ inputQueues' = MapSet(inputQueues, sessionId,
                                <<[sequenceNumber |-> message.sequenceNumber,
                                   direction |-> message.direction]>>)
            /\ UNCHANGED inputLog
     ELSE IF message.sequenceNumber <= players[sessionId].lastProcessedSequenceNumber
       THEN /\ inputLog' = "Stale input rejected"
            /\ UNCHANGED inputQueues
     ELSE IF sessionId \in DOMAIN inputQueues
       THEN /\ inputQueues' =
                 [inputQueues EXCEPT ![sessionId] =
                    Append(@, [sequenceNumber |-> message.sequenceNumber,
                               direction |-> message.direction])]
            /\ UNCHANGED inputLog
     ELSE UNCHANGED <<inputQueues, inputLog>>
  /\ UNCHANGED <<players, playerOrder, accountIdBySession, characterIdBySession,
                 joinCounter, hostAccountId, autoSaveInterval, saving, disposed,
                 conn, joining, closeCode, lastMoved, characters, pendingSaves,
                 rooms>>

\* the body of handleInput
handleInput(sessionId, message) ==
  /\ IF message.seqType # "number" \/ ~isValidDirection(message.direction)
       THEN /\ inputLog' = "Invalid input message - bad shape"
            /\ UNCHANGED inputQueues
     ELSE IF sessionId \notin DOMAIN players
       THEN UNCHANGED <<inputQueues, inputLog>>
     ELSE IF message.sequenceNumber <= players[sessionId].lastProcessedSequenceNumber
       THEN /\ inputLog' = "Stale input rejected"
            /\ UNCHANGED inputQueues
     ELSE IF sessionId \in DOMAIN inputQueues
       THEN /\ inputQueues' =
                 [inputQueues EXCEPT ![sessionId] =
                    Append(@, [sequenceNumber |-> message.sequenceNumber,
                               direction |-> message.direction])]
            /\ UNCHANGED inputLog
     ELSE UNCHANGED <<inputQueues, inputLog>>
  /\ UNCHANGED <<players, playerOrder, accountIdBySession, characterIdBySession,
                 joinCounter, hostAccountId, autoSaveInterval, saving, disposed,
                 conn, joining, closeCode, lastMoved, characters, pendingSaves,
                 rooms>>

\* the INPUT handler of onCreate: the framework hands a message over only
\* while its client is joined and not being closed
HandleInput(sessionId, message) ==
  /\ ~disposed
  /\ conn[sessionId] = "joined"
  /\ handleInput(sessionId, message)

(***************************************************************************)
(* WorldRoom.tick                                                          *)
(***************************************************************************)
\* tickPlayer acknowledging the input only when the move succeeded
tickPlayerAckOnlyMoved(player, input) ==
  LET result == processPlayerInput(TOWN_MAP, player.x, player.y, input.direction)
  IN  [player EXCEPT !.x = result.x, !.y = result.y,
                     !.lastProcessedSequenceNumber =
                        IF result.moved THEN input.sequenceNumber ELSE @]

\* tickPlayer that moves the player and leaves the sequence number alone
tickPlayerKeepsSeq(player, input) ==
  LET result == processPlayerInput(TOWN_MAP, player.x, player.y, input.direction)
  IN  [player EXCEPT !.x = result.x, !.y = result.y]

\* the body of the forEach callback for a player whose queue head is input
tickPlayer(player, input) ==
  LET result == processPlayerInput(TOWN_MAP, player.x, player.y, input.direction)
  IN  [player EXCEPT !.x = result.x, !.y = result.y,
                     !.lastProcessedSequenceNumber = input.sequenceNumber]

\* tickEach taking the newest input (queue.pop()) instead of the head
RECURSIVE tickEachPop(_, _)
tickEachPop(order, st) ==
  IF order = <<>> THEN st
  ELSE
    LET sessionId == Head(order)
    IN  IF sessionId \notin DOMAIN st.inputQueues \/ st.inputQueues[sessionId] = <<>>
          THEN tickEachPop(Tail(order), st)
        ELSE
          LET queue == st.inputQueues[sessionId]
              input == queue[Len(queue)]
              player == st.players[sessionId]
          IN  tickEachPop(Tail(order),
                [players |-> [st.players EXCEPT ![sessionId] = tickPlayer(player, input)],
                 inputQueues |-> [st.inputQueues EXCEPT ![sessionId] =
                                    SubSeq(queue, 1, Len(queue) - 1)],
                 lastMoved |-> [st.lastMoved EXCEPT ![sessionId] =
                    IF processPlayerInput(TOWN_MAP, player.x, player.y,
                                          input.direction).moved
                      THEN "moved" ELSE "blocked"]])

\* tickEach refusing a move onto a tile another player stands on
RECURSIVE tickEachWithCollision(_, _)
tickEachWithCollision(order, st) ==
  IF order = <<>> THEN st
  ELSE
    LET sessionId == Head(order)
    IN  IF sessionId \notin DOMAIN st.inputQueues \/ st.inputQueues[sessionId] = <<>>
          THEN tickEachWithCollision(Tail(order), st)
        ELSE
          LET input == Head(st.inputQueues[sessionId])
              player == st.players[sessionId]
              target == tickPlayer(player, input)
              occupied == \E other \in DOMAIN st.players \ {sessionId} :
                            /\ st.players[other].x = target.x
                            /\ st.players[other].y = target.y
          IN  tickEachWithCollision(Tail(order),
                [players |-> [st.players EXCEPT ![sessionId] =
                                IF occupied
                                  THEN [player EXCEPT !.lastProcessedSequenceNumber =
                                                        input.sequenceNumber]
                                ELSE target],
                 inputQueues |-> [st.inputQueues EXCEPT ![sessionId] = Tail(@)],
                 lastMoved |-> [st.lastMoved EXCEPT ![sessionId] =
                    IF ~occupied /\ processPlayerInput(TOWN_MAP, player.x, player.y,
                                                       input.direction).moved
                      THEN "moved" ELSE "blocked"]])

RECURSIVE tickEach(_, _)
tickEach(order, st) ==
  IF order = <<>> THEN st
  ELSE
    LET sessionId == Head(order)
    IN  IF sessionId \notin DOMAIN st.inputQueues \/ st.inputQueues[sessionId] = <<>>
          THEN tickEach(Tail(order), st)
        ELSE
          LET input == Head(st.inputQueues[sessionId])
              player == st.players[sessionId]
          IN  tickEach(Tail(order),
                [players |-> [st.players EXCEPT ![sessionId] = tickPlayer(player, input)],
                 inputQueues |-> [st.inputQueues EXCEPT ![sessionId] = Tail(@)],
                 lastMoved |-> [st.lastMoved EXCEPT ![sessionId] =
                    IF processPlayerInput(TOWN_MAP, player.x, player.y,
                                          input.direction).moved
                      THEN "moved" ELSE "blocked"]])

Tick ==
  /\ LET st == tickEach(playerOrder,
                 [players |-> players, inputQueues |-> inputQueues, lastMoved |-> lastMoved])
     IN  /\ players' = st.players
         /\ inputQueues' = st.inputQueues
         /\ lastMoved' = st.lastMoved
  /\ UNCHANGED <<playerOrder, accountIdBySession, characterIdBySession, joinCounter,
                 hostAccountId, autoSaveInterval, saving, disposed, conn, joining,
                 closeCode, characters, pendingSaves, inputLog, rooms>>

(***************************************************************************)
(* WorldRoom.onJoin, in the three pieces its awaits cut it into            *)
(***************************************************************************)
\* onJoin turning away every account but the owner, also from a warm room
OnJoinOwnerOnly(sessionId, token, characterName) ==
  /\ ~disposed
  /\ conn[sessionId] = "none"
  /\ Cardinality({s \in Sessions : Connected(s)}) < maxClients
  /\ LET decoded == verifyToken(token)
     IN  IF ~decoded.ok
           THEN /\ closeCode' = [closeCode EXCEPT ![sessionId] = 4001]
                /\ conn' = [conn EXCEPT ![sessionId] = "closed"]
                /\ UNCHANGED <<joinCounter, accountIdBySession, joining>>
         ELSE IF decoded.sub # hostAccountId
           THEN /\ closeCode' = [closeCode EXCEPT ![sessionId] = 4002]
                /\ conn' = [conn EXCEPT ![sessionId] = "closed"]
                /\ UNCHANGED <<joinCounter, accountIdBySession, joining>>
         ELSE /\ joinCounter' = joinCounter + 1
              /\ accountIdBySession' = MapSet(accountIdBySession, sessionId, decoded.sub)
              /\ joining' = MapSet(joining, sessionId,
                               [accountId |-> decoded.sub, email |-> decoded.email,
                                characterName |-> characterName])
              /\ conn' = [conn EXCEPT ![sessionId] = "getCharacter"]
              /\ UNCHANGED closeCode
  /\ UNCHANGED <<players, playerOrder, inputQueues, characterIdBySession, hostAccountId,
                 autoSaveInterval, saving, disposed, lastMoved, characters, pendingSaves,
                 inputLog, rooms>>

\* up to the await of getCharacter
\* onJoin counting the join before it has verified the token
OnJoinCountsBadToken(sessionId, token, characterName) ==
  /\ ~disposed
  /\ conn[sessionId] = "none"
  /\ Cardinality({s \in Sessions : Connected(s)}) < maxClients
  /\ LET decoded == verifyToken(token)
     IN  IF ~decoded.ok
           THEN /\ closeCode' = [closeCode EXCEPT ![sessionId] = 4001]
                /\ conn' = [conn EXCEPT ![sessionId] = "closed"]
                /\ joinCounter' = joinCounter + 1
                /\ UNCHANGED <<accountIdBySession, joining>>
         ELSE IF Cardinality(DOMAIN players) = 0 /\ decoded.sub # hostAccountId
           THEN /\ closeCode' = [closeCode EXCEPT ![sessionId] = 4002]
                /\ conn' = [conn EXCEPT ![sessionId] = "closed"]
                /\ UNCHANGED <<joinCounter, accountIdBySession, joining>>
         ELSE /\ joinCounter' = joinCounter + 1
              /\ accountIdBySession' = MapSet(accountIdBySession, sessionId, decoded.sub)
              /\ joining' = MapSet(joining, sessionId,
                               [accountId |-> decoded.sub, email |-> decoded.email,
                                characterName |-> characterName])
              /\ conn' = [conn EXCEPT ![sessionId] = "getCharacter"]
              /\ UNCHANGED closeCode
  /\ UNCHANGED <<players, playerOrder, inputQueues, characterIdBySession, hostAccountId,
                 autoSaveInterval, saving, disposed, lastMoved, characters, pendingSaves,
                 inputLog, rooms>>

\* onJoin taking the host account from the token of whoever joins
OnJoinTakesHostFromClient(sessionId, token, characterName) ==
  /\ ~disposed
  /\ conn[sessionId] = "none"
  /\ Cardinality({s \in Sessions : Connected(s)}) < maxClients
  /\ LET decoded == verifyToken(token)
     IN  IF ~decoded.ok
           THEN /\ closeCode' = [closeCode EXCEPT ![sessionId] = 4001]
                /\ conn' = [conn EXCEPT ![sessionId] = "closed"]
                /\ UNCHANGED <<joinCounter, accountIdBySession, joining>>
         ELSE IF Cardinality(DOMAIN players) = 0 /\ decoded.sub # hostAccountId
           THEN /\ closeCode' = [closeCode EXCEPT ![sessionId] = 4002]
                /\ conn' = [conn EXCEPT ![sessionId] = "closed"]
                /\ UNCHANGED <<joinCounter, accountIdBySession, joining>>
         ELSE /\ joinCounter' = joinCounter + 1
              /\ accountIdBySession' = MapSet(accountIdBySession, sessionId, decoded.sub)
              /\ joining' = MapSet(joining, sessionId,
                               [accountId |-> decoded.sub, email |-> decoded.email,
                                characterName |-> characterName])
              /\ conn' = [conn EXCEPT ![sessionId] = "getCharacter"]
              /\ UNCHANGED closeCode
  /\ hostAccountId' = IF verifyToken(token).ok /\ conn'[sessionId] = "getCharacter"
                         THEN verifyToken(token).sub ELSE hostAccountId
  /\ UNCHANGED <<players, playerOrder, inputQueues, characterIdBySession,
                 autoSaveInterval, saving, disposed, lastMoved, characters, pendingSaves,
                 inputLog, rooms>>

OnJoin(sessionId, token, characterName) ==
  /\ ~disposed
  /\ conn[sessionId] = "none"
  /\ Cardinality({s \in Sessions : Connected(s)}) < maxClients
  /\ LET decoded == verifyToken(token)
     IN  IF ~decoded.ok
           THEN /\ closeCode' = [closeCode EXCEPT ![sessionId] = 4001]
                /\ conn' = [conn EXCEPT ![sessionId] = "closed"]
                /\ UNCHANGED <<joinCounter, accountIdBySession, joining>>
         ELSE IF Cardinality(DOMAIN players) = 0 /\ decoded.sub # hostAccountId
           THEN /\ closeCode' = [closeCode EXCEPT ![sessionId] = 4002]
                /\ conn' = [conn EXCEPT ![sessionId] = "closed"]
                /\ UNCHANGED <<joinCounter, accountIdBySession, joining>>
         ELSE /\ joinCounter' = joinCounter + 1
              /\ accountIdBySession' = MapSet(accountIdBySession, sessionId, decoded.sub)
              /\ joining' = MapSet(joining, sessionId,
                               [accountId |-> decoded.sub, email |-> decoded.email,
                                characterName |-> characterName])
              /\ conn' = [conn EXCEPT ![sessionId] = "getCharacter"]
              /\ UNCHANGED closeCode
  /\ UNCHANGED <<players, playerOrder, inputQueues, characterIdBySession, hostAccountId,
                 autoSaveInterval, saving, disposed, lastMoved, characters, pendingSaves,
                 inputLog, rooms>>

\* the tail of onJoin without inputQueues.set
addPlayerWithoutQueue(sessionId, accountId, character) ==
  /\ characterIdBySession' = MapSet(characterIdBySession, sessionId, character.id)
  /\ UNCHANGED inputQueues
  /\ players' = MapSet(players, sessionId,
                  PlayerState(sessionId, accountId, character.name,
                              character.position_x, character.position_y))
  /\ playerOrder' = orderSet(playerOrder, sessionId)
  /\ lastMoved' = MapSet(lastMoved, sessionId, "none")
  /\ joining' = MapDelete(joining, sessionId)
  /\ conn' = [conn EXCEPT ![sessionId] = "joined"]

\* the tail of onJoin: characterIdBySession.set, inputQueues.set, players.set
addPlayer(sessionId, accountId, character) ==
  /\ characterIdBySession' = MapSet(characterIdBySession, sessionId, character.id)
  /\ inputQueues' = MapSet(inputQueues, sessionId, <<>>)
  /\ players' = MapSet(players, sessionId,
                  PlayerState(sessionId, accountId, character.name,
                              character.position_x, character.position_y))
  /\ playerOrder' = orderSet(playerOrder, sessionId)
  /\ lastMoved' = MapSet(lastMoved, sessionId, "none")
  /\ joining' = MapDelete(joining, sessionId)
  /\ conn' = [conn EXCEPT ![sessionId] = "joined"]

\* onJoin rejects: the framework drops the client, onJoin's own writes stay
joinThrows(sessionId) ==
  /\ conn' = [conn EXCEPT ![sessionId] = "failed"]
  /\ joining' = MapDelete(joining, sessionId)
  /\ UNCHANGED <<players, playerOrder, inputQueues, characterIdBySession, lastMoved>>

\* getCharacter settles; with a row, onJoin runs to its end
OnJoinGetCharacter(sessionId, ok) ==
  /\ conn[sessionId] = "getCharacter"
  /\ LET accountId == joining[sessionId].accountId
         character == characters[accountId]
     IN  IF ~ok THEN joinThrows(sessionId)
         ELSE IF character.exists THEN addPlayer(sessionId, accountId, character)
         ELSE /\ conn' = [conn EXCEPT ![sessionId] = "createCharacter"]
              /\ UNCHANGED <<players, playerOrder, inputQueues, characterIdBySession,
                             lastMoved, joining>>
  /\ UNCHANGED <<accountIdBySession, joinCounter, hostAccountId, autoSaveInterval,
                 saving, disposed, closeCode, characters, pendingSaves, inputLog, rooms>>

\* createCharacter settles: the INSERT fails on UNIQUE(account_id, world_id)
\* and, once the world's row is gone, on the foreign key world_id
OnJoinCreateCharacter(sessionId, ok) ==
  /\ conn[sessionId] = "createCharacter"
  /\ LET accountId == joining[sessionId].accountId
         newChar == CharacterRow(characterIdOf(accountId),
                      newCharacterName(joining[sessionId].characterName,
                                       joining[sessionId].email),
                      TOWN_MAP.spawnX, TOWN_MAP.spawnY)
     IN  IF ~ok \/ characters[accountId].exists \/ worldData = NoWorldRow
           THEN /\ joinThrows(sessionId)
                /\ UNCHANGED characters
         ELSE /\ characters' = [characters EXCEPT ![accountId] = newChar]
              /\ addPlayer(sessionId, accountId,
                   [newChar EXCEPT !.position_x = TOWN_MAP.spawnX,
                                   !.position_y = TOWN_MAP.spawnY])
  /\ UNCHANGED <<accountIdBySession, joinCounter, hostAccountId, autoSaveInterval,
                 saving, disposed, closeCode, pendingSaves, inputLog, rooms>>

(***************************************************************************)
(* WorldRoom.onLeave, autoSave, onDispose and the saves they start         *)
(***************************************************************************)
RECURSIVE characterSaveData(_)
characterSaveData(order) ==
  IF order = <<>> THEN <<>>
  ELSE
    LET sessionId == Head(order)
    IN  IF sessionId \in DOMAIN characterIdBySession
          THEN <<[characterId |-> characterIdBySession[sessionId],
                  x |-> players[sessionId].x, y |-> players[sessionId].y]>>
               \o characterSaveData(Tail(order))
        ELSE characterSaveData(Tail(order))

\* onLeave starting a save whether or not the session has a character
OnLeaveAlwaysSaves(sessionId) ==
  /\ conn[sessionId] \in {"joined", "kicked", "closed"}
  /\ pendingSaves' =
       Append(pendingSaves,
         [by |-> "onLeave",
          characters |->
            IF sessionId \in DOMAIN characterIdBySession /\ sessionId \in DOMAIN players
              THEN <<[characterId |-> characterIdBySession[sessionId],
                      x |-> players[sessionId].x,
                      y |-> players[sessionId].y]>>
            ELSE <<>>])
  /\ accountIdBySession' = MapDelete(accountIdBySession, sessionId)
  /\ characterIdBySession' = MapDelete(characterIdBySession, sessionId)
  /\ inputQueues' = MapDelete(inputQueues, sessionId)
  /\ players' = MapDelete(players, sessionId)
  /\ playerOrder' = seqWithout(playerOrder, sessionId)
  /\ lastMoved' = MapDelete(lastMoved, sessionId)
  /\ conn' = [conn EXCEPT ![sessionId] = IF @ = "closed" THEN "gone" ELSE "closed"]
  /\ UNCHANGED <<joinCounter, hostAccountId, autoSaveInterval, saving, disposed,
                 joining, closeCode, characters, inputLog, rooms>>

\* The transport's close event runs onLeave: for a joined session, and also for
\* a session that holds nothing in the room any more (closed by onJoin, or
\* dropped a second time); conn "gone" records that second kind of call.
OnLeave(sessionId) ==
  /\ conn[sessionId] \in {"joined", "kicked", "closed"}
  /\ IF sessionId \in DOMAIN characterIdBySession /\ sessionId \in DOMAIN players
       THEN pendingSaves' =
              Append(pendingSaves,
                [by |-> "onLeave",
                 characters |-> <<[characterId |-> characterIdBySession[sessionId],
                                   x |-> players[sessionId].x,
                                   y |-> players[sessionId].y]>>])
     ELSE UNCHANGED pendingSaves
  /\ accountIdBySession' = MapDelete(accountIdBySession, sessionId)
  /\ characterIdBySession' = MapDelete(characterIdBySession, sessionId)
  /\ inputQueues' = MapDelete(inputQueues, sessionId)
  /\ players' = MapDelete(players, sessionId)
  /\ playerOrder' = seqWithout(playerOrder, sessionId)
  /\ lastMoved' = MapDelete(lastMoved, sessionId)
  /\ conn' = [conn EXCEPT ![sessionId] = IF @ = "closed" THEN "gone" ELSE "closed"]
  /\ UNCHANGED <<joinCounter, hostAccountId, autoSaveInterval, saving, disposed,
                 joining, closeCode, characters, inputLog, rooms>>

\* the interval callback: autoSave up to its await
AutoSave ==
  /\ autoSaveInterval = "set"
  /\ IF saving THEN UNCHANGED <<saving, pendingSaves>>
     ELSE /\ saving' = TRUE
          /\ pendingSaves' =
               Append(pendingSaves,
                 [by |-> "autoSave", characters |-> characterSaveData(playerOrder)])
  /\ UNCHANGED <<players, playerOrder, inputQueues, accountIdBySession,
                 characterIdBySession, joinCounter, hostAccountId, autoSaveInterval,
                 disposed, conn, joining, closeCode, lastMoved, characters, inputLog, rooms>>

\* onDispose leaving the auto-save timer armed
OnDisposeKeepsAutoSaveTimer ==
  /\ ~disposed
  /\ \A s \in Sessions : ~Connected(s)
  /\ \E s \in Sessions : conn[s] \in {"closed", "gone", "failed"}
  /\ disposed' = TRUE
  /\ autoSaveInterval' = autoSaveInterval
  /\ IF saving THEN UNCHANGED <<saving, pendingSaves>>
     ELSE /\ saving' = TRUE
          /\ pendingSaves' =
               Append(pendingSaves,
                 [by |-> "onDispose", characters |-> characterSaveData(playerOrder)])
  /\ UNCHANGED <<players, playerOrder, inputQueues, accountIdBySession,
                 characterIdBySession, joinCounter, hostAccountId, conn, joining,
                 closeCode, lastMoved, characters, inputLog, rooms>>

\* the framework disposes the room once clients have come and none is left
OnDispose ==
  /\ ~disposed
  /\ \A s \in Sessions : ~Connected(s)
  /\ \E s \in Sessions : conn[s] \in {"closed", "gone", "failed"}
  /\ disposed' = TRUE
  /\ autoSaveInterval' = "null"
  /\ IF saving THEN UNCHANGED <<saving, pendingSaves>>
     ELSE /\ saving' = TRUE
          /\ pendingSaves' =
               Append(pendingSaves,
                 [by |-> "onDispose", characters |-> characterSaveData(playerOrder)])
  /\ UNCHANGED <<players, playerOrder, inputQueues, accountIdBySession,
                 characterIdBySession, joinCounter, hostAccountId, conn, joining,
                 closeCode, lastMoved, characters, inputLog, rooms>>

\* the UPDATEs of one saveAll transaction, in order
RECURSIVE saveAll(_, _)
saveAll(rows, chars) ==
  IF chars = <<>> THEN rows
  ELSE
    LET char == Head(chars)
    IN  saveAll([a \in DOMAIN rows |->
                   IF rows[a].exists /\ rows[a].id = char.characterId
                     THEN [rows[a] EXCEPT !.position_x = char.x, !.position_y = char.y]
                   ELSE rows[a]],
                Tail(chars))

removeAt(seq, i) == SubSeq(seq, 1, i - 1) \o SubSeq(seq, i + 1, Len(seq))

\* saveAll settling without a finally block: the flag is reset on success only
SaveAllSettlesNoFinally(i, ok) ==
  /\ i \in 1..Len(pendingSaves)
  /\ characters' = IF ok THEN saveAll(characters, pendingSaves[i].characters)
                   ELSE characters
  /\ pendingSaves' = removeAt(pendingSaves, i)
  /\ saving' = IF pendingSaves[i].by \in {"autoSave", "onDispose"} /\ ok THEN FALSE ELSE saving
  /\ UNCHANGED <<players, playerOrder, inputQueues, accountIdBySession,
                 characterIdBySession, joinCounter, hostAccountId, autoSaveInterval,
                 disposed, conn, joining, closeCode, lastMoved, inputLog, rooms>>

\* a saveAll in flight commits or rolls back; autoSave and onDispose then
\* run their finally block
SaveAllSettles(i, ok) ==
  /\ i \in 1..Len(pendingSaves)
  /\ characters' = IF ok THEN saveAll(characters, pendingSaves[i].characters)
                   ELSE characters
  /\ pendingSaves' = removeAt(pendingSaves, i)
  /\ saving' = IF pendingSaves[i].by \in {"autoSave", "onDispose"} THEN FALSE ELSE saving
  /\ UNCHANGED <<players, playerOrder, inputQueues, accountIdBySession,
                 characterIdBySession, joinCounter, hostAccountId, autoSaveInterval,
                 disposed, conn, joining, closeCode, lastMoved, inputLog, rooms>>

\* DELETE /worlds/:id by the owner, also while the room is live: deleteWorld
\* removes the world_saves row and ON DELETE CASCADE every characters row of
\* the world. The DELETE waits while a saveAll transaction has updated the
\* row and not ended; a transaction that has not yet touched the row sees
\* the deletion in its later statements
DeleteWorld ==
  /\ worldData # NoWorldRow
  /\ ~txn.locked
  /\ worldData' = NoWorldRow
  /\ characters' = [a \in Accounts |-> NoCharacter]
  /\ txn' = IF txn.phase \in {"connect", "begin", "world", "characters", "commit",
                              "rollback"}
              THEN [txn EXCEPT !.newWorldData = NoWorldRow,
                               !.newRows = [a \in Accounts |-> NoCharacter]]
            ELSE txn
  /\ UNCHANGED <<players, playerOrder, inputQueues, accountIdBySession,
                 characterIdBySession, joinCounter, hostAccountId, autoSaveInterval,
                 saving, disposed, conn, joining, closeCode, lastMoved, pendingSaves,
                 inputLog, inputsSent, rooms, clientVars, idleVars, lastIdleCheck, timerVars,
                 saveLog, joinResult, moveVars>>

(***************************************************************************)
(* The room of one world save: Spec                                        *)
(***************************************************************************)
Init ==
  /\ RoomInit
  /\ characters \in InitCharacterRows
  /\ inputsSent = 0
  /\ rooms = EmptyMap
  /\ OutsideInit

ClientSendsInput ==
  \E s \in Sessions, message \in InputMessages :
    /\ inputsSent < MaxInputs
    /\ inputsSent' = inputsSent + 1
    /\ HandleInput(s, message)
    /\ UNCHANGED <<clientVars, idleVars, otherVars>>

ClientJoins ==
  \E s \in Sessions, token \in Tokens, characterName \in CharacterNames :
    OnJoin(s, token, characterName) /\ UNCHANGED <<inputsSent, clientVars, idleVars, otherVars>>

GetCharacterSettles ==
  \E s \in Sessions, ok \in BOOLEAN :
    OnJoinGetCharacter(s, ok) /\ UNCHANGED <<inputsSent, clientVars, idleVars, otherVars>>

CreateCharacterSettles ==
  \E s \in Sessions, ok \in BOOLEAN :
    OnJoinCreateCharacter(s, ok) /\ UNCHANGED <<inputsSent, clientVars, idleVars, otherVars>>

\* the simulation interval calls tick while it is armed; nothing in the room's
\* code clears it, so it fires on after onDispose
TickFires ==
  /\ simulationInterval = "set"
  /\ Tick
  /\ UNCHANGED <<inputsSent, clientVars, idleVars, otherVars>>

ClientLeaves == \E s \in Sessions : OnLeave(s) /\ UNCHANGED <<inputsSent, clientVars, idleVars, otherVars>>

AutoSaveFires == AutoSave /\ UNCHANGED <<inputsSent, clientVars, idleVars, otherVars>>

RoomDisposes == OnDispose /\ UNCHANGED <<inputsSent, clientVars, idleVars, otherVars>>

SaveSettles ==
  \E i \in 1..Len(pendingSaves), ok \in BOOLEAN :
    SaveAllSettles(i, ok) /\ UNCHANGED <<inputsSent, clientVars, idleVars, otherVars>>

Next ==
  \/ ClientJoins
  \/ GetCharacterSettles
  \/ CreateCharacterSettles
  \/ ClientSendsInput
  \/ TickFires
  \/ ClientLeaves
  \/ AutoSaveFires
  \/ RoomDisposes
  \/ SaveSettles
  \/ DeleteWorld

Spec == Init /\ [][Next]_vars

(***************************************************************************)
(* One client that sends well-numbered inputs faster than ticks drain      *)
(* them: SpecFlood                                                         *)
(***************************************************************************)
FloodSession == "s1"
HostToken == [valid |-> TRUE, sub |-> "acctA", email |-> <<"a">>]

FloodInit ==
  /\ RoomInit
  /\ characters = [a \in Accounts |-> NoCharacter]
  /\ inputsSent = 0
  /\ rooms = EmptyMap
  /\ OutsideInit

FloodJoins ==
  \E characterName \in CharacterNames :
    OnJoin(FloodSession, HostToken, characterName) /\ UNCHANGED <<inputsSent, clientVars, idleVars, otherVars>>

FloodGetCharacter == OnJoinGetCharacter(FloodSession, TRUE) /\ UNCHANGED <<inputsSent, clientVars, idleVars, otherVars>>

FloodCreateCharacter == OnJoinCreateCharacter(FloodSession, TRUE) /\ UNCHANGED <<inputsSent, clientVars, idleVars, otherVars>>

\* the client numbers its inputs 1, 2, 3, ...
FloodInput ==
  /\ FloodSession \in DOMAIN players
  /\ LET next == players[FloodSession].lastProcessedSequenceNumber
                   + Len(inputQueues[FloodSession]) + 1
     IN  /\ next <= MaxFloodSeq
         /\ \E d \in InputDirections :
              HandleInput(FloodSession,
                [seqType |-> "number", sequenceNumber |-> next, direction |-> d])
  /\ UNCHANGED <<inputsSent, clientVars, idleVars, otherVars>>

FloodNext ==
  \/ FloodJoins
  \/ FloodGetCharacter
  \/ FloodCreateCharacter
  \/ FloodInput
  \/ TickFires

SpecFlood == FloodInit /\ [][FloodNext]_vars

(***************************************************************************)
(* One client that joins, sends inputs and may leave, in a room whose      *)
(* simulation interval keeps firing: SpecLive                              *)
(***************************************************************************)
LiveInput ==
  \E message \in InputMessages :
    /\ inputsSent < MaxInputs
    /\ inputsSent' = inputsSent + 1
    /\ HandleInput(FloodSession, message)
    /\ UNCHANGED <<clientVars, idleVars, otherVars>>

LiveLeaves == OnLeave(FloodSession) /\ UNCHANGED <<inputsSent, clientVars, idleVars, otherVars>>

LiveNext ==
  \/ FloodJoins
  \/ FloodGetCharacter
  \/ FloodCreateCharacter
  \/ LiveInput
  \/ TickFires
  \/ LiveLeaves
  \/ SaveSettles

\* setSimulationInterval keeps calling tick for as long as the room lives
SpecLive == Init /\ [][LiveNext]_vars /\ WF_vars(TickFires)

\* ---------------------------------------------------------------------------
\* The saves of the room with their log lines: one client joins, moves and
\* leaves while auto-saves, the leave save and the final save commit or fail.
\* ---------------------------------------------------------------------------
saveLogLine(by, ok) ==
  IF by = "autoSave" THEN (IF ok THEN "Auto-saved" ELSE "Auto-save failed")
  ELSE IF by = "onDispose"
    THEN (IF ok THEN "Final save on dispose" ELSE "Final save on dispose failed")
  ELSE IF ok THEN saveLog ELSE "Failed to save character on leave"

LoggedSaveSettles ==
  \E i \in 1..Len(pendingSaves), ok \in BOOLEAN :
    /\ SaveAllSettles(i, ok)
    /\ saveLog' = saveLogLine(pendingSaves[i].by, ok)
    /\ UNCHANGED <<inputsSent, clientVars, idleVars, lastIdleCheck, timerVars, joinResult, moveVars, dbVars>>

SaveNext ==
  \/ FloodJoins
  \/ FloodGetCharacter
  \/ FloodCreateCharacter
  \/ LiveInput
  \/ TickFires
  \/ LiveLeaves
  \/ AutoSaveFires
  \/ RoomDisposes
  \/ LoggedSaveSettles
  \/ DeleteWorld

SpecSave == Init /\ [][SaveNext]_vars

(***************************************************************************)
(* Matchmaking of 'world' rooms: SpecRegistry                              *)
(***************************************************************************)
\* world ids clients ask for; "w3" has no row in world_saves
RequestedWorldIds == {"w1", "w2", "w3"}

\* SELECT * FROM world_saves WHERE id = $1; the row of RoomWorldId is gone
\* once its owner has deleted the world
getWorld(worldId) ==
  IF worldId \in DOMAIN WorldOwner /\ ~(worldId = RoomWorldId /\ worldData = NoWorldRow)
    THEN [found |-> TRUE, owner_id |-> WorldOwner[worldId]]
  ELSE [found |-> FALSE, owner_id |-> "none"]

\* clients of a room: the client whose joinOrCreate is creating it, those
\* that were handed a seat and whose onJoin has not been called yet
\* (reserved), those whose onJoin waits for getCharacter / createCharacter,
\* and those in state.players; of the last three, those that asked for the
\* room's world and the others
roomClients(room) ==
  LET RECURSIVE reservedSeats(_)
      reservedSeats(accounts) ==
        IF accounts = {} THEN 0
        ELSE LET a == CHOOSE a \in accounts : TRUE
             IN  room.reserved[a].own + room.reserved[a].other
                   + reservedSeats(accounts \ {a})
  IN  room.own + room.other + room.waitOwn + room.waitOther + reservedSeats(Accounts)
        + (IF room.status = "creating" THEN 1 ELSE 0)

seatedClients == LET RECURSIVE sum(_)
                     sum(ids) == IF ids = {} THEN 0
                                 ELSE LET r == CHOOSE r \in ids : TRUE
                                      IN  roomClients(rooms[r]) + sum(ids \ {r})
                 IN  sum(DOMAIN rooms)

\* clients whose joinOrCreate has not ended yet
joiningClients ==
  LET RECURSIVE sum(_)
      sum(ids) == IF ids = {} THEN 0
                  ELSE LET r == CHOOSE r \in ids : TRUE
                       IN  roomClients(rooms[r]) - rooms[r].own - rooms[r].other
                             + sum(ids \ {r})
  IN  sum(DOMAIN rooms)

\* gameServer.define('world', WorldRoom) sets no filter: joinOrCreate('world', options)
\* takes any listed 'world' room that is not locked, whatever options.worldSaveId
\* is, and creates a room from the options only when there is none (a room is
\* listed when its onCreate has returned, and locks when its clients, reserved
\* seats included, are maxClients)
availableRooms ==
  {r \in DOMAIN rooms :
     rooms[r].status = "open" /\ roomClients(rooms[r]) < maxClients}

newRoomId == CHOOSE r \in 1..RegMaxClients : r \notin DOMAIN rooms

\* the first joiner check of onJoin, for a client with a valid token: it reads
\* state.players.size, which counts neither the clients holding a seat nor
\* those whose onJoin is waiting
onJoinAdmits(room, accountId) ==
  ~(room.own + room.other = 0 /\ accountId # room.hostAccountId)

\* joinOrCreate('world', {token, worldSaveId}): the matchmaker hands the client
\* a seat of a room, or starts a room, whose onCreate runs to the await of
\* getWorld; while a 'world' room is being created the matchmaker holds the
\* other joinOrCreate calls back. options.worldSaveId is not compared with
\* the room's
JoinOrCreate(accountId, worldSaveId) ==
  /\ seatedClients < RegMaxClients
  /\ joiningClients < MaxJoining
  /\ \A r \in DOMAIN rooms : rooms[r].status # "creating"
  /\ IF availableRooms # {}
       THEN \E r \in availableRooms :
              LET asked == IF worldSaveId = rooms[r].worldSaveId THEN "own"
                           ELSE "other"
                  RECURSIVE reservedOther(_)
                  reservedOther(accounts) ==
                    IF accounts = {} THEN 0
                    ELSE LET a == CHOOSE a \in accounts : TRUE
                         IN  rooms[r].reserved[a].other
                               + reservedOther(accounts \ {a})
                  strangers == rooms[r].other + rooms[r].waitOther
                                 + reservedOther(Accounts)
              IN  /\ asked = "other" => strangers < MaxStrangers
                  /\ rooms' = [rooms EXCEPT ![r].reserved[accountId][asked] = @ + 1]
     ELSE rooms' = MapSet(rooms, newRoomId,
                     [status |-> "creating", worldSaveId |-> worldSaveId,
                      hostAccountId |-> "none", creator |-> accountId,
                      own |-> 0, other |-> 0, waitOwn |-> 0, waitOther |-> 0,
                      reserved |-> [a \in Accounts |-> [own |-> 0, other |-> 0]]])
  /\ UNCHANGED <<roomVars, inputsSent, clientVars, idleVars, otherVars>>

\* getWorld answers onCreate. Without a row onCreate throws before any client
\* is connected: the client's joinOrCreate rejects, no socket is closed. With
\* a row onCreate returns, the room is listed and the client that started it
\* holds a seat; its joinOrCreate has not ended yet
RegOnCreateSettles ==
  \E r \in DOMAIN rooms :
    /\ rooms[r].status = "creating"
    /\ LET world == getWorld(rooms[r].worldSaveId)
       IN  IF ~world.found
             THEN /\ rooms' = MapDelete(rooms, r)
                  /\ joinResult' = [outcome |-> "rejected", code |-> 0]
           ELSE /\ rooms' = [rooms EXCEPT
                               ![r].status = "open",
                               ![r].hostAccountId = world.owner_id,
                               ![r].creator = "none",
                               ![r].reserved[rooms[r].creator].own = 1]
                /\ UNCHANGED joinResult
    /\ UNCHANGED <<roomVars, inputsSent, clientVars, idleVars, lastIdleCheck, timerVars, saveLog, moveVars, dbVars>>

\* the client has connected to its seat and onJoin is called: it runs to the
\* await of getCharacter, or closes a first joiner that is not the host with
\* 4002; a room left without clients is disposed
RegOnJoinCalled ==
  \E r \in DOMAIN rooms, accountId \in Accounts, asked \in {"own", "other"} :
    /\ rooms[r].status = "open"
    /\ rooms[r].reserved[accountId][asked] > 0
    /\ LET waiting == IF asked = "own" THEN "waitOwn" ELSE "waitOther"
       IN  IF onJoinAdmits(rooms[r], accountId)
             THEN /\ rooms' = [rooms EXCEPT ![r].reserved[accountId][asked] = @ - 1,
                                            ![r][waiting] = @ + 1]
                  /\ UNCHANGED joinResult
           ELSE /\ rooms' = IF roomClients(rooms[r]) = 1 THEN MapDelete(rooms, r)
                            ELSE [rooms EXCEPT ![r].reserved[accountId][asked] = @ - 1]
                /\ joinResult' = [outcome |-> "closed", code |-> 4002]
    /\ UNCHANGED <<roomVars, inputsSent, clientVars, idleVars, lastIdleCheck, timerVars, saveLog, moveVars, dbVars>>

\* getCharacter / createCharacter answer an onJoin: state.players.set, or
\* onJoin throws and the client is dropped; a room left without clients is
\* disposed
RegJoinSettles ==
  \E r \in DOMAIN rooms, asked \in {"own", "other"}, ok \in BOOLEAN :
    /\ rooms[r].status = "open"
    /\ LET waiting == IF asked = "own" THEN "waitOwn" ELSE "waitOther"
       IN  /\ rooms[r][waiting] > 0
           /\ IF ok
                THEN /\ rooms' = [rooms EXCEPT ![r][waiting] = @ - 1,
                                               ![r][asked] = @ + 1]
                     /\ joinResult' = [outcome |-> "seated", code |-> 0]
              ELSE /\ rooms' = IF roomClients(rooms[r]) = 1 THEN MapDelete(rooms, r)
                               ELSE [rooms EXCEPT ![r][waiting] = @ - 1]
                   /\ joinResult' = [outcome |-> "rejected", code |-> 0]
    /\ UNCHANGED <<roomVars, inputsSent, clientVars, idleVars, lastIdleCheck, timerVars, saveLog, moveVars, dbVars>>

\* a seated client disconnects; the room is disposed when it was the last
RegLeave(r, asked) ==
  /\ r \in DOMAIN rooms
  /\ rooms[r][asked] > 0
  /\ rooms' = IF roomClients(rooms[r]) = 1 THEN MapDelete(rooms, r)
              ELSE [rooms EXCEPT ![r][asked] = @ - 1]
  /\ UNCHANGED <<roomVars, inputsSent, clientVars, idleVars, otherVars>>

RegInit ==
  /\ RoomInit
  /\ characters = [a \in Accounts |-> NoCharacter]
  /\ inputsSent = 0
  /\ rooms = EmptyMap
  /\ OutsideInit

RegJoins ==
  \E accountId \in Accounts, worldSaveId \in RequestedWorldIds :
    JoinOrCreate(accountId, worldSaveId)

RegLeaves == \E r \in DOMAIN rooms, asked \in {"own", "other"} : RegLeave(r, asked)

RegNext ==
  \/ RegJoins
  \/ RegOnCreateSettles
  \/ RegOnJoinCalled
  \/ RegJoinSettles
  \/ RegLeaves
  \/ DeleteWorld

SpecRegistry == RegInit /\ [][RegNext]_vars

(***************************************************************************)
(* One client that sends sequence numbers that are not whole: SpecHalves   *)
(* handleInput and tick only compare and copy sequence numbers, so this    *)
(* specification counts them in halves: n stands for the number n / 2.     *)
(***************************************************************************)
\* -1, -0.5, 0, 0.5, 1, ... and the two messages of another shape
HalfMessages ==
  {[seqType |-> "number", sequenceNumber |-> n, direction |-> d] :
     n \in (-2)..MaxHalfSeq, d \in InputDirections}
  \cup {[seqType |-> "undefined", sequenceNumber |-> 0, direction |-> "up"],
        [seqType |-> "number", sequenceNumber |-> 2, direction |-> "jump"]}

HalfInput ==
  \E message \in HalfMessages :
    /\ inputsSent < MaxInputs
    /\ inputsSent' = inputsSent + 1
    /\ HandleInput(FloodSession, message)
    /\ UNCHANGED <<clientVars, idleVars, otherVars>>

HalfNext ==
  \/ FloodJoins
  \/ FloodGetCharacter
  \/ FloodCreateCharacter
  \/ HalfInput
  \/ TickFires

SpecHalves == FloodInit /\ [][HalfNext]_vars

(***************************************************************************)
(* The client's PredictionBuffer against the ticks of the room:            *)
(* SpecReconcile                                                           *)
(***************************************************************************)
\* the for loop of reconcile: replay the entries from (x, y)
RECURSIVE replay(_, _, _, _)
replay(map, x, y, entries) ==
  IF entries = <<>> THEN [x |-> x, y |-> y]
  ELSE LET result == processPlayerInput(map, x, y, Head(entries).direction)
       IN  replay(map, result.x, result.y, Tail(entries))

\* reconcile replaying also the entry the server has just confirmed
reconcileFromConfirmed(buf, serverX, serverY, serverLastProcessedSeq, map) ==
  LET remaining == SelectSeq(buf, LAMBDA entry :
                               entry.sequenceNumber >= serverLastProcessedSeq)
  IN  IF Len(remaining) = 0
        THEN [buffer |-> remaining, x |-> serverX, y |-> serverY]
      ELSE LET end == replay(map, serverX, serverY, remaining)
           IN  [buffer |-> remaining, x |-> end.x, y |-> end.y]

\* PredictionBuffer.reconcile: the buffer it leaves and the position it returns
reconcile(buf, serverX, serverY, serverLastProcessedSeq, map) ==
  LET remaining == SelectSeq(buf, LAMBDA entry :
                               entry.sequenceNumber > serverLastProcessedSeq)
  IN  IF Len(remaining) = 0
        THEN [buffer |-> remaining, x |-> serverX, y |-> serverY]
      ELSE LET end == replay(map, serverX, serverY, remaining)
           IN  [buffer |-> remaining, x |-> end.x, y |-> end.y]

\* buffers of a client that numbers its predictions upwards, some of them
\* already dropped
RECURSIVE buffersUpTo(_)
buffersUpTo(n) ==
  IF n = 0 THEN {<<>>}
  ELSE LET shorter == buffersUpTo(n - 1)
       IN  shorter \cup {Append(b, [sequenceNumber |-> n, direction |-> d]) :
                           b \in shorter, d \in Direction}

\* where the server has the player: the spawn and the two persisted places
ServerPositions == {<<16, 16>>, <<1, 1>>, <<23, 20>>}

\* a joined player the server has acknowledged up to k, the client's buffer,
\* and in the player's queue the buffered inputs after k
ReconcileInit ==
  /\ \E pos \in ServerPositions, k \in 0..MaxBufferSeq, buf \in buffersUpTo(MaxBufferSeq) :
       /\ players = [s \in {FloodSession} |->
                       [PlayerState(FloodSession, "acctA", <<"a">>, pos[1], pos[2])
                          EXCEPT !.lastProcessedSequenceNumber = k]]
       /\ inputQueues = [s \in {FloodSession} |->
                           SelectSeq(buf, LAMBDA entry : entry.sequenceNumber > k)]
       /\ buffer = buf
       /\ characters = [a \in Accounts |->
                          IF a = "acctA"
                            THEN CharacterRow(characterIdOf(a), <<"a">>, pos[1], pos[2])
                          ELSE NoCharacter]
  /\ playerOrder = <<FloodSession>>
  /\ accountIdBySession = [s \in {FloodSession} |-> "acctA"]
  /\ characterIdBySession = [s \in {FloodSession} |-> characterIdOf("acctA")]
  /\ joinCounter = 1
  /\ hostAccountId = WorldOwner[RoomWorldId]
  /\ autoSaveInterval = "set"
  /\ saving = FALSE
  /\ disposed = FALSE
  /\ conn = [s \in Sessions |-> IF s = FloodSession THEN "joined" ELSE "none"]
  /\ joining = EmptyMap
  /\ closeCode = [s \in Sessions |-> 0]
  /\ lastMoved = [s \in {FloodSession} |-> "none"]
  /\ pendingSaves = <<>>
  /\ inputLog = "none"
  /\ inputsSent = 0
  /\ rooms = EmptyMap
  /\ reconciled = NoReconcile
  /\ hostSessionId = "null"
  /\ lastInputTime = EmptyMap
  /\ idleWarned = {}
  /\ now = 0
  /\ sent = EmptyMap
  /\ OtherInit

\* a state patch reaches the client, which reconciles against it
ClientReconciles ==
  /\ FloodSession \in DOMAIN players
  /\ LET player == players[FloodSession]
         result == reconcile(buffer, player.x, player.y,
                             player.lastProcessedSequenceNumber, TOWN_MAP)
     IN  /\ buffer' = result.buffer
         /\ reconciled' = [valid |-> TRUE, x |-> result.x, y |-> result.y]
  /\ UNCHANGED <<roomVars, inputsSent, rooms, idleVars, otherVars>>

ReconcileNext ==
  \/ ClientReconciles
  \/ TickFires

SpecReconcile == ReconcileInit /\ [][ReconcileNext]_vars

\* ---------------------------------------------------------------------------
\* The PredictionBuffer of one WorldScene on its own: every client tick with a
\* held key numbers a prediction and adds it, state patches acknowledge any
\* sequence number, and destroy() clears the buffer; the next scene starts
\* with a new buffer and counts from 0 again.
\* ---------------------------------------------------------------------------
MAX_SIZE == 60

\* addPrediction without the cap
addPredictionKeepsAll(buf, entry) == Append(buf, entry)

\* PredictionBuffer.addPrediction: push, then shift once the length is over
\* MAX_SIZE
addPrediction(buf, entry) ==
  LET pushed == Append(buf, entry)
  IN  IF Len(pushed) > MAX_SIZE THEN Tail(pushed) ELSE pushed

\* clientTick with the right key held
PredictionAdded ==
  /\ inputsSent < MaxPredictions
  /\ inputsSent' = inputsSent + 1
  /\ buffer' = addPrediction(buffer, [sequenceNumber |-> inputsSent + 1,
                                      direction |-> "right"])
  /\ UNCHANGED <<roomVars, rooms, reconciled, idleVars, otherVars>>

\* WorldScene.reconcile against a patch in which the player stands on the spawn
\* and the server has processed the inputs up to serverLastProcessedSeq
PredictionsReconciled(serverLastProcessedSeq) ==
  /\ LET result == reconcile(buffer, TOWN_MAP.spawnX, TOWN_MAP.spawnY,
                             serverLastProcessedSeq, TOWN_MAP)
     IN  /\ buffer' = result.buffer
         /\ reconciled' = [valid |-> TRUE, x |-> result.x, y |-> result.y,
                           serverLastProcessedSeq |-> serverLastProcessedSeq]
  /\ UNCHANGED <<roomVars, rooms, inputsSent, idleVars, otherVars>>

\* WorldScene.destroy: predictionBuffer.clear(); sequenceNumber and the
\* predicted position stay as they are
SceneDestroyed ==
  /\ buffer' = <<>>
  /\ UNCHANGED <<roomVars, rooms, inputsSent, reconciled, idleVars, otherVars>>

\* a patch acknowledges one of the last inputs sent, or nothing when next to
\* nothing was sent
BufferNext ==
  \/ PredictionAdded
  \/ \E serverLastProcessedSeq \in
          {k \in 0..inputsSent : inputsSent - k <= MaxAckLag} :
       PredictionsReconciled(serverLastProcessedSeq)
  \/ SceneDestroyed

SpecBuffer == Init /\ [][BufferNext]_vars

(***************************************************************************)
(* The idle timeout of the room: SpecIdle                                  *)
(* The idle state machine, and the places where onJoin, handleInput,       *)
(* onLeave and the idle check interval of the room drive it.               *)
(***************************************************************************)
IDLE_TIMEOUT_MS == 15 * 60 * 1000
\* the warning threshold put on the kick threshold
IDLE_WARNING_MS_AtTimeout == 15 * 60 * 1000
IDLE_WARNING_MS == 14 * 60 * 1000

IdleState == [lastInputTime |-> lastInputTime, idleWarned |-> idleWarned]

playerJoined(state, sessionId, time) ==
  [state EXCEPT !.lastInputTime = MapSet(@, sessionId, time)]

playerInput(state, sessionId, time) ==
  [lastInputTime |-> MapSet(state.lastInputTime, sessionId, time),
   idleWarned |-> state.idleWarned \ {sessionId}]

\* playerLeft forgetting to clear the warning
playerLeftKeepsWarned(state, sessionId) ==
  [lastInputTime |-> MapDelete(state.lastInputTime, sessionId),
   idleWarned |-> state.idleWarned]

playerLeft(state, sessionId) ==
  [lastInputTime |-> MapDelete(state.lastInputTime, sessionId),
   idleWarned |-> state.idleWarned \ {sessionId}]

\* checkIdle warning a session again on every check
RECURSIVE checkIdleRepeatsWarning(_, _, _, _)
checkIdleRepeatsWarning(entries, state, time, result) ==
  IF entries = <<>> THEN [state |-> state, warn |-> result.warn, kick |-> result.kick]
  ELSE
    LET sessionId == Head(entries)
        elapsed == time - state.lastInputTime[sessionId]
    IN  IF elapsed >= IDLE_TIMEOUT_MS
          THEN checkIdleRepeatsWarning(Tail(entries), state, time,
                 [result EXCEPT !.kick = Append(@, sessionId)])
        ELSE IF elapsed >= IDLE_WARNING_MS
          THEN checkIdleRepeatsWarning(Tail(entries),
                 [state EXCEPT !.idleWarned = @ \cup {sessionId}], time,
                 [result EXCEPT !.warn = Append(@, sessionId)])
        ELSE checkIdleRepeatsWarning(Tail(entries), state, time, result)

\* checkIdle warning only after more than the warning time has elapsed
RECURSIVE checkIdleWarnsLate(_, _, _, _)
checkIdleWarnsLate(entries, state, time, result) ==
  IF entries = <<>> THEN [state |-> state, warn |-> result.warn, kick |-> result.kick]
  ELSE
    LET sessionId == Head(entries)
        elapsed == time - state.lastInputTime[sessionId]
    IN  IF elapsed >= IDLE_TIMEOUT_MS
          THEN checkIdleWarnsLate(Tail(entries), state, time,
                 [result EXCEPT !.kick = Append(@, sessionId)])
        ELSE IF elapsed > IDLE_WARNING_MS /\ sessionId \notin state.idleWarned
          THEN checkIdleWarnsLate(Tail(entries),
                 [state EXCEPT !.idleWarned = @ \cup {sessionId}], time,
                 [result EXCEPT !.warn = Append(@, sessionId)])
        ELSE checkIdleWarnsLate(Tail(entries), state, time, result)

\* the loop of checkIdle over lastInputTime.entries(), given in Map order
RECURSIVE checkIdle(_, _, _, _)
checkIdle(entries, state, time, result) ==
  IF entries = <<>> THEN [state |-> state, warn |-> result.warn, kick |-> result.kick]
  ELSE
    LET sessionId == Head(entries)
        elapsed == time - state.lastInputTime[sessionId]
    IN  IF elapsed >= IDLE_TIMEOUT_MS
          THEN checkIdle(Tail(entries), state, time,
                 [result EXCEPT !.kick = Append(@, sessionId)])
        ELSE IF elapsed >= IDLE_WARNING_MS /\ sessionId \notin state.idleWarned
          THEN checkIdle(Tail(entries),
                 [state EXCEPT !.idleWarned = @ \cup {sessionId}], time,
                 [result EXCEPT !.warn = Append(@, sessionId)])
        ELSE checkIdle(Tail(entries), state, time, result)

\* lastInputTime gets its keys when players does, so both Maps iterate alike
idleEntries == SelectSeq(playerOrder, LAMBDA s : s \in DOMAIN lastInputTime)

inSeq(seq, e) == \E i \in 1..Len(seq) : seq[i] = e

\* onJoin: the host is noted after the first-joiner check
IdleOnJoin(sessionId, token, characterName) ==
  /\ OnJoin(sessionId, token, characterName)
  /\ hostSessionId' = IF conn'[sessionId] = "getCharacter"
                            /\ verifyToken(token).sub = hostAccountId
                         THEN sessionId ELSE hostSessionId
  /\ UNCHANGED <<lastInputTime, idleWarned, now, sent>>

\* onJoin: lastInputTime is set after the player is added to the state
IdleOnJoinGetCharacter(sessionId, ok) ==
  /\ OnJoinGetCharacter(sessionId, ok)
  /\ lastInputTime' = IF conn'[sessionId] = "joined"
                         THEN playerJoined(IdleState, sessionId, now).lastInputTime
                       ELSE lastInputTime
  /\ UNCHANGED <<hostSessionId, idleWarned, now, sent>>

\* handleInput: the idle timer is reset between the player validation and the
\* stale rejection
idleInputReset(sessionId, message) ==
  /\ LET reset == /\ message.seqType = "number"
                  /\ isValidDirection(message.direction)
                  /\ sessionId \in DOMAIN players
         state == IF reset THEN playerInput(IdleState, sessionId, now) ELSE IdleState
     IN  /\ lastInputTime' = state.lastInputTime
         /\ idleWarned' = state.idleWarned
  /\ UNCHANGED <<hostSessionId, now, sent>>

IdleHandleInput(sessionId, message) ==
  /\ HandleInput(sessionId, message)
  /\ idleInputReset(sessionId, message)

\* onLeave: the host session is cleared and the idle entries are deleted
IdleOnLeave(sessionId) ==
  /\ OnLeave(sessionId)
  /\ hostSessionId' = IF sessionId = hostSessionId THEN "null" ELSE hostSessionId
  /\ LET state == playerLeft(IdleState, sessionId)
     IN  /\ lastInputTime' = state.lastInputTime
         /\ idleWarned' = state.idleWarned
  /\ UNCHANGED <<now, sent>>

\* A client is its socket (conn), the code it was closed with and the
\* messages it was sent.
\* client.send: an open socket takes the message, a socket that is closing
\* or closed takes nothing more
clientSend(client, type) ==
  IF client.conn = "joined" THEN [client EXCEPT !.sent = Append(@, type)]
  ELSE client

\* client.leave(code): the socket starts closing with that code
clientLeave(client, code) ==
  IF client.conn = "joined" THEN [client EXCEPT !.conn = "kicked", !.closeCode = code]
  ELSE client

\* the kick calling client.leave(4005) before client.send(IDLE_KICK)
idleKickClosesFirst(client) == clientSend(clientLeave(client, 4005), "IDLE_KICK")

\* checkIdlePlayers at 15 minutes: client.send(IDLE_KICK), then
\* client.leave(4005)
idleKick(client) == clientLeave(clientSend(client, "IDLE_KICK"), 4005)

\* the idle-check interval callback, while the timer is armed: every session
\* at 15 minutes is kicked, every other one at 14 minutes is sent IDLE_WARNING
\* once
CheckIdlePlayers ==
  /\ idleCheckInterval = "set"
  /\ LET result == checkIdle(idleEntries, IdleState, now, [warn |-> <<>>, kick |-> <<>>])
         client(s) == [conn |-> conn[s], closeCode |-> closeCode[s], sent |-> sent[s]]
         after(s) == IF inSeq(result.kick, s) THEN idleKick(client(s))
                     ELSE IF inSeq(result.warn, s)
                       THEN clientSend(client(s), "IDLE_WARNING")
                     ELSE client(s)
     IN  /\ idleWarned' = result.state.idleWarned
         /\ sent' = [s \in Sessions |-> after(s).sent]
         /\ closeCode' = [s \in Sessions |-> after(s).closeCode]
         /\ conn' = [s \in Sessions |-> after(s).conn]
  /\ UNCHANGED <<players, playerOrder, inputQueues, accountIdBySession,
                 characterIdBySession, joinCounter, hostAccountId, autoSaveInterval,
                 saving, disposed, joining, lastMoved, characters, pendingSaves,
                 inputLog, rooms, hostSessionId, lastInputTime, now>>

IDLE_CHECK_INTERVAL_MS == 30000

\* the moments at which the model looks at the clock: around the warning and
\* the timeout of a session whose timer started at 0 or one interval later
ClockTimes ==
  {0, IDLE_CHECK_INTERVAL_MS, IDLE_WARNING_MS,
   IDLE_WARNING_MS + IDLE_CHECK_INTERVAL_MS, IDLE_TIMEOUT_MS,
   IDLE_WARNING_MS + IDLE_CHECK_INTERVAL_MS + IDLE_WARNING_MS}

ClockAdvances ==
  /\ \E time \in ClockTimes :
       /\ time > now
       /\ now' = time
  /\ UNCHANGED <<roomVars, rooms, inputsSent, clientVars, hostSessionId,
                 lastInputTime, idleWarned, sent, otherVars>>

\* a fresh input, a stale one, and the two messages of another shape
IdleMessages ==
  {message \in InputMessages : message.sequenceNumber <= 1}

\* a world in which both accounts have a character
IdleInit ==
  /\ RoomInit
  /\ characters = [a \in Accounts |->
                     IF a = "acctA" THEN CharacterRow(characterIdOf(a), <<"a">>, 1, 1)
                     ELSE CharacterRow(characterIdOf(a), <<"R">>, 23, 20)]
  /\ inputsSent = 0
  /\ rooms = EmptyMap
  /\ buffer = <<>>
  /\ reconciled = NoReconcile
  /\ hostSessionId = "null"
  /\ lastInputTime = EmptyMap
  /\ idleWarned = {}
  /\ now = 0
  /\ sent = [s \in Sessions |-> <<>>]
  /\ OtherInit

IdleJoins ==
  \E s \in Sessions, token \in Tokens :
    /\ IdleOnJoin(s, token, <<" ">>)
    /\ UNCHANGED <<inputsSent, clientVars, otherVars>>

IdleGetCharacter ==
  \E s \in Sessions, ok \in BOOLEAN :
    /\ IdleOnJoinGetCharacter(s, ok)
    /\ UNCHANGED <<inputsSent, clientVars, otherVars>>

IdleInput ==
  \E s \in Sessions, message \in IdleMessages :
    /\ inputsSent < MaxInputs
    /\ inputsSent' = inputsSent + 1
    /\ IdleHandleInput(s, message)
    /\ UNCHANGED <<clientVars, otherVars>>

IdleLeaves ==
  \E s \in Sessions :
    /\ IdleOnLeave(s)
    /\ UNCHANGED <<inputsSent, clientVars, otherVars>>

IdleCheckFires == CheckIdlePlayers /\ UNCHANGED <<inputsSent, clientVars, otherVars>>

IdleNext ==
  \/ IdleJoins
  \/ IdleGetCharacter
  \/ IdleInput
  \/ TickFires
  \/ IdleCheckFires
  \/ IdleLeaves
  \/ ClockAdvances

SpecIdle == IdleInit /\ [][IdleNext]_vars

\* client.leave(4005) closes the socket, and the transport's close event runs
\* onLeave for the session
KickedLeaves(sessionId) ==
  /\ conn[sessionId] = "kicked"
  /\ IdleOnLeave(sessionId)
  /\ UNCHANGED <<inputsSent, clientVars, otherVars>>

\* the same room, with the close event of every kicked session delivered
SpecIdleKick ==
  /\ IdleInit
  /\ [][IdleNext]_vars
  /\ \A s \in Sessions : WF_vars(KickedLeaves(s))

\* ---------------------------------------------------------------------------
\* The idle check on its timer: setInterval(checkIdlePlayers,
\* IDLE_CHECK_INTERVAL_MS) fires at every multiple of the interval after
\* onCreate; one client joins, sends inputs and leaves at any time in between.
\* Time advances in half intervals up to MaxTimedSteps of them.
\* ---------------------------------------------------------------------------
idleCheckDue ==
  /\ now > 0
  /\ now % IDLE_CHECK_INTERVAL_MS = 0
  /\ lastIdleCheck # now

TimedClockAdvances ==
  /\ ~idleCheckDue
  /\ now + (IDLE_CHECK_INTERVAL_MS \div 2) <= MaxTimedSteps * (IDLE_CHECK_INTERVAL_MS \div 2)
  /\ now' = now + (IDLE_CHECK_INTERVAL_MS \div 2)
  /\ UNCHANGED <<roomVars, rooms, inputsSent, clientVars, hostSessionId,
                 lastInputTime, idleWarned, sent, otherVars>>

TimedCheckFires ==
  /\ idleCheckDue
  /\ CheckIdlePlayers
  /\ lastIdleCheck' = now
  /\ UNCHANGED <<inputsSent, clientVars, timerVars, saveLog, joinResult, moveVars, dbVars>>

TimedJoins ==
  /\ IdleOnJoin(FloodSession, HostToken, <<" ">>)
  /\ UNCHANGED <<inputsSent, clientVars, otherVars>>

TimedGetCharacter ==
  /\ IdleOnJoinGetCharacter(FloodSession, TRUE)
  /\ UNCHANGED <<inputsSent, clientVars, otherVars>>

TimedInput ==
  \E message \in IdleMessages :
    /\ inputsSent < MaxInputs
    /\ inputsSent' = inputsSent + 1
    /\ IdleHandleInput(FloodSession, message)
    /\ UNCHANGED <<clientVars, otherVars>>

TimedLeaves ==
  /\ IdleOnLeave(FloodSession)
  /\ UNCHANGED <<inputsSent, clientVars, otherVars>>

TimedNext ==
  \/ TimedJoins
  \/ TimedGetCharacter
  \/ TimedInput
  \/ TimedCheckFires
  \/ TimedLeaves
  \/ TimedClockAdvances

SpecIdleTimed == IdleInit /\ [][TimedNext]_vars

\* ---------------------------------------------------------------------------
\* handleInput called for a client that is not (or no longer) seated: its
\* onJoin is still waiting for its character, or its onLeave has run already.
\* ---------------------------------------------------------------------------
StrayInput ==
  \E s \in Sessions, message \in IdleMessages :
    /\ ~disposed
    /\ conn[s] \in {"getCharacter", "createCharacter", "closed", "gone"}
    /\ inputsSent < MaxInputs
    /\ inputsSent' = inputsSent + 1
    /\ handleInput(s, message)
    /\ idleInputReset(s, message)
    /\ UNCHANGED <<clientVars, otherVars>>

StrayNext ==
  \/ IdleJoins
  \/ IdleGetCharacter
  \/ IdleInput
  \/ StrayInput
  \/ TickFires
  \/ IdleCheckFires
  \/ IdleLeaves
  \/ ClockAdvances

SpecStray == IdleInit /\ [][StrayNext]_vars

\* ---------------------------------------------------------------------------
\* The movement evaluator on its own: it is called with every map of at most
\* MaxMapTiles tiles, from every position of the map, in every direction, and
\* the caller walks on from the position it returns.
\* ---------------------------------------------------------------------------
TileType == {GROUND, WALL, WATER}

GameMaps ==
  LET sizes == {size \in (1..MaxMapTiles) \X (1..MaxMapTiles) :
                  size[1] * size[2] <= MaxMapTiles}
  IN  UNION {{[width |-> size[1], height |-> size[2], spawnX |-> 0, spawnY |-> 0,
               tiles |-> t] :
                t \in [1..size[2] -> [1..size[1] -> TileType]]} :
             size \in sizes}

MoveInit ==
  /\ RoomInit
  /\ characters = [a \in Accounts |-> NoCharacter]
  /\ inputsSent = 0
  /\ rooms = EmptyMap
  /\ buffer = <<>>
  /\ reconciled = NoReconcile
  /\ hostSessionId = "null"
  /\ lastInputTime = EmptyMap
  /\ idleWarned = {}
  /\ now = 0
  /\ sent = EmptyMap
  /\ lastIdleCheck = 0
  /\ simulationInterval = "set"
  /\ idleCheckInterval = "set"
  /\ saveLog = "none"
  /\ joinResult = [outcome |-> "none", code |-> 0]
  /\ worldData = JSONstringify([mapId |-> "town", version |-> 0])
  /\ txn = NoTxn
  /\ moveMap \in GameMaps
  /\ \E x \in 0..(moveMap.width - 1), y \in 0..(moveMap.height - 1) :
       movePos = [x |-> x, y |-> y]
  /\ moveLast = [called |-> FALSE]

MoveEvaluates ==
  \E direction \in Direction :
    LET result == tryMove(moveMap, movePos.x, movePos.y, direction)
    IN  /\ moveLast' = [called |-> TRUE, direction |-> direction,
                        x |-> movePos.x, y |-> movePos.y, result |-> result]
        /\ movePos' = [x |-> result.x, y |-> result.y]
        /\ UNCHANGED <<moveMap, roomVars, inputsSent, rooms, clientVars, idleVars,
                       lastIdleCheck, timerVars, saveLog, joinResult, dbVars>>

MoveNext == MoveEvaluates

SpecMove == MoveInit /\ [][MoveNext]_vars

\* ---------------------------------------------------------------------------
\* saveAll statement by statement: one call at a time, for the characters of
\* the world's two accounts; every statement may fail. Inside the transaction
\* the UPDATEs are made on the transaction's own view (newWorldData, newRows),
\* which COMMIT installs and ROLLBACK discards.
\* ---------------------------------------------------------------------------
SavedWorldDatas ==
  {[mapId |-> "town", version |-> 1], [mapId |-> "town", version |-> 2]}

\* the lists of CharacterSaveData of characters that have a row when saveAll
\* is called, none twice
CharacterSaveLists ==
  LET one(a, pos) == [characterId |-> characterIdOf(a), x |-> pos[1], y |-> pos[2]]
      withRow == {a \in Accounts : characters[a].exists}
      SavedPositions == {<<10, 11>>, <<20, 21>>}
  IN  {<<>>}
      \cup {<<one(a, pos)>> : a \in withRow, pos \in SavedPositions}
      \cup {<<one(pair[1], pos1), one(pair[2], pos2)>> :
               pair \in {q \in withRow \X withRow : q[1] # q[2]},
               pos1 \in SavedPositions, pos2 \in SavedPositions}

\* saveAll is called: pool.connect() is awaited
SaveAllCalled(data, chars) ==
  /\ txn.phase \in {"idle", "resolved", "rejected"}
  /\ txn' = [phase |-> "connect", worldData |-> data, characters |-> chars,
              todo |-> chars, newWorldData |-> worldData, newRows |-> characters,
              client |-> "none", locked |-> FALSE]
  /\ UNCHANGED <<worldData, characters>>

\* the next await of saveAll: pool.connect(), BEGIN, UPDATE world_saves, one
\* UPDATE characters per list entry, COMMIT. A connect that fails rejects the
\* call at once. A statement that fails takes the call to its catch block,
\* which awaits ROLLBACK: until that is answered the call is pending, holds
\* its client and the transaction still has its view (newWorldData, newRows).
\* When ROLLBACK is answered, with or without an error, the view is gone,
\* the finally block releases the client and the call rejects. An UPDATE
\* whose row is gone changes nothing and is no error
SaveAllStep(ok) ==
  /\ txn.phase \in {"connect", "begin", "world", "characters", "commit", "rollback"}
  /\ CASE txn.phase = "connect" ->
            /\ txn' = IF ok THEN [txn EXCEPT !.phase = "begin", !.client = "held"]
                      ELSE [txn EXCEPT !.phase = "rejected"]
            /\ UNCHANGED <<worldData, characters>>
       [] txn.phase = "rollback" ->
            /\ txn' = [txn EXCEPT !.phase = "rejected", !.locked = FALSE,
                                  !.client = "released",
                                  !.newWorldData = worldData, !.newRows = characters]
            /\ UNCHANGED <<worldData, characters>>
       [] txn.phase \in {"begin", "world", "characters", "commit"} /\ ~ok ->
            /\ txn' = [txn EXCEPT !.phase = "rollback"]
            /\ UNCHANGED <<worldData, characters>>
       [] txn.phase = "begin" /\ ok ->
            /\ txn' = [txn EXCEPT !.phase = "world"]
            /\ UNCHANGED <<worldData, characters>>
       [] txn.phase = "world" /\ ok ->
            /\ txn' = [txn EXCEPT !.newWorldData = IF @ # NoWorldRow
                                                     THEN JSONstringify(txn.worldData)
                                                   ELSE @,
                                  !.locked = txn.newWorldData # NoWorldRow,
                                  !.phase = IF txn.todo = <<>> THEN "commit"
                                            ELSE "characters"]
            /\ UNCHANGED <<worldData, characters>>
       [] txn.phase = "characters" /\ ok ->
            /\ txn' = [txn EXCEPT !.newRows = saveAll(@, <<Head(txn.todo)>>),
                                  !.todo = Tail(@),
                                  !.phase = IF Len(txn.todo) = 1 THEN "commit"
                                            ELSE "characters"]
            /\ UNCHANGED <<worldData, characters>>
       [] txn.phase = "commit" /\ ok ->
            /\ txn' = [txn EXCEPT !.phase = "resolved", !.locked = FALSE,
                                  !.client = "released"]
            /\ worldData' = txn.newWorldData
            /\ characters' = txn.newRows

DbSaveAllCalled ==
  \E data \in SavedWorldDatas, chars \in CharacterSaveLists :
    /\ SaveAllCalled(data, chars)
    /\ UNCHANGED <<players, playerOrder, inputQueues, accountIdBySession,
                   characterIdBySession, joinCounter, hostAccountId, autoSaveInterval,
                   saving, disposed, conn, joining, closeCode, lastMoved, pendingSaves,
                   inputLog, inputsSent, rooms, clientVars, idleVars, lastIdleCheck, timerVars,
                   saveLog, joinResult, moveVars>>

DbSaveAllStep ==
  \E ok \in BOOLEAN :
    /\ SaveAllStep(ok)
    /\ UNCHANGED <<players, playerOrder, inputQueues, accountIdBySession,
                   characterIdBySession, joinCounter, hostAccountId, autoSaveInterval,
                   saving, disposed, conn, joining, closeCode, lastMoved, pendingSaves,
                   inputLog, inputsSent, rooms, clientVars, idleVars, lastIdleCheck, timerVars,
                   saveLog, joinResult, moveVars>>

DbNext == DbSaveAllCalled \/ DbSaveAllStep \/ DeleteWorld

SpecSaveAll == Init /\ [][DbNext]_vars

\* ---------------------------------------------------------------------------
\* The room with all three timers up to and after its disposal: one client
\* joins, plays and leaves; tick, auto-save and idle check fire while armed.
\* ---------------------------------------------------------------------------
\* onDispose: the idle-check interval is cleared alongside the auto-save
\* interval; the simulation interval is not touched
IdleOnDispose ==
  /\ OnDispose
  /\ idleCheckInterval' = "null"
  /\ UNCHANGED <<simulationInterval, inputsSent, clientVars, idleVars, lastIdleCheck,
                 saveLog, joinResult, moveVars, dbVars>>

DisposeNext ==
  \/ TimedJoins
  \/ TimedGetCharacter
  \/ TimedInput
  \/ TimedLeaves
  \/ TickFires
  \/ AutoSaveFires
  \/ IdleCheckFires
  \/ ClockAdvances
  \/ IdleOnDispose
  \/ SaveSettles

SpecDispose == IdleInit /\ [][DisposeNext]_vars

(***************************************************************************)
(* Properties                                                              *)
(***************************************************************************)
HasInput(s) == s \in DOMAIN inputQueues /\ inputQueues[s] # <<>>

\* C1: every player record in the room state stands in bounds on a passable
\* tile of the map, records restored from a persisted character included
PlayersOnPassableTiles ==
  \A s \in DOMAIN players :
    /\ 0 <= players[s].x /\ players[s].x < TOWN_MAP.width
    /\ 0 <= players[s].y /\ players[s].y < TOWN_MAP.height
    /\ tileAt(TOWN_MAP, players[s].x, players[s].y) \in PASSABLE_TILES

\* a player restored from a persisted row next to the wall has had an input
\* processed there
RestoredPlayerProcessedInput ==
  \E s \in DOMAIN players :
    /\ players[s].x = 1 /\ players[s].y = 1
    /\ players[s].lastProcessedSequenceNumber > 0
    /\ lastMoved[s] # "none"

\* C2: the lastProcessedSequenceNumber of a session never decreases while the
\* session is in the room
SequenceNumberNeverDecreases ==
  [][\A s \in DOMAIN players \cap DOMAIN players' :
       players'[s].lastProcessedSequenceNumber >= players[s].lastProcessedSequenceNumber]_vars

\* C3: a tick that consumes an input sets lastProcessedSequenceNumber to the
\* input's sequence number; the position stays when the target is out of
\* bounds or not passable and becomes the target otherwise
TickAcknowledgesBlockedAndMoved ==
  [][Tick =>
       \A s \in DOMAIN players :
         HasInput(s) =>
           LET input == Head(inputQueues[s])
               tx == players[s].x + DIRECTION_DELTAS[input.direction].dx
               ty == players[s].y + DIRECTION_DELTAS[input.direction].dy
               blocked == \/ tx < 0 \/ tx >= TOWN_MAP.width
                          \/ ty < 0 \/ ty >= TOWN_MAP.height
                          \/ tileAt(TOWN_MAP, tx, ty) \notin PASSABLE_TILES
           IN  /\ players'[s].lastProcessedSequenceNumber = input.sequenceNumber
               /\ blocked => players'[s].x = players[s].x /\ players'[s].y = players[s].y
               /\ ~blocked => players'[s].x = tx /\ players'[s].y = ty]_vars

\* one player's last input was blocked and acknowledged, another's moved it
BlockedAndMovedAcknowledged ==
  \E s, t \in DOMAIN players :
    /\ lastMoved[s] = "blocked" /\ players[s].lastProcessedSequenceNumber > 0
    /\ lastMoved[t] = "moved" /\ players[t].lastProcessedSequenceNumber > 0

\* C4: a tick takes exactly the head off every non-empty queue of a session in
\* state, takes nothing from any other queue, and leaves the record and the
\* queue of a session with an empty queue as they were
TickConsumesOneHeadEach ==
  [][Tick =>
       /\ DOMAIN inputQueues' = DOMAIN inputQueues
       /\ DOMAIN players' = DOMAIN players
       /\ \A s \in DOMAIN players :
            /\ HasInput(s) => inputQueues'[s] = Tail(inputQueues[s])
            /\ ~HasInput(s) => /\ players'[s] = players[s]
                               /\ s \in DOMAIN inputQueues =>
                                    inputQueues'[s] = inputQueues[s]
       /\ \A s \in DOMAIN inputQueues \ DOMAIN players :
            inputQueues'[s] = inputQueues[s]]_vars

\* a player with two different inputs queued had the first consumed while the
\* other player, with nothing queued, has never been touched by a tick
OneConsumedOtherUntouched ==
  \E s, t \in DOMAIN players :
    /\ s # t
    /\ players[s].lastProcessedSequenceNumber = 2
    /\ inputQueues[s] = <<[sequenceNumber |-> 1, direction |-> "up"]>>
    /\ players[t].lastProcessedSequenceNumber = 0
    /\ lastMoved[t] = "none"

\* C5: an input whose sequence number is at most the player's
\* lastProcessedSequenceNumber on arrival is not enqueued and changes neither
\* the room state nor any queue
StaleInputChangesNothing ==
  [][\A s \in Sessions, message \in InputMessages :
       ( /\ HandleInput(s, message)
         /\ message.seqType = "number"
         /\ s \in DOMAIN players
         /\ message.sequenceNumber <= players[s].lastProcessedSequenceNumber )
       => /\ inputQueues' = inputQueues
          /\ players' = players
          /\ playerOrder' = playerOrder]_vars

\* a stale input has arrived for a player that has a processed input
StaleInputArrived ==
  /\ inputLog = "Stale input rejected"
  /\ \E s \in DOMAIN players : players[s].lastProcessedSequenceNumber > 0

\* C6: no two saves of the room are in flight at the same time
AtMostOneSaveInFlight == Len(pendingSaves) <= 1

\* C7: a join by an account other than the owner into a room without players
\* is closed with 4002 and gets no player record; a join by any authenticated
\* account into a room with players passes on to the character lookup, and a
\* session closed with 4002 never has a player record
ColdOpenOnlyByOwner ==
  /\ [](\A s \in Sessions :
          closeCode[s] = 4002 => s \notin DOMAIN players /\ conn[s] \in {"closed", "gone"})
  /\ [][\A s \in Sessions, token \in Tokens, characterName \in CharacterNames :
          (OnJoin(s, token, characterName) /\ token.valid) =>
            /\ (DOMAIN players = {} /\ token.sub # hostAccountId) =>
                 /\ closeCode'[s] = 4002
                 /\ conn'[s] = "closed"
                 /\ players' = players
                 /\ inputQueues' = inputQueues
            /\ DOMAIN players # {} =>
                 /\ closeCode'[s] = 0
                 /\ conn'[s] = "getCharacter"]_vars

\* an account other than the owner is in the room state: it joined warm
NonOwnerJoinedWarm ==
  \E s \in DOMAIN players : players[s].accountId # hostAccountId

\* C8: a client that asked for world save W is never seated in a room of
\* another world save
SeatedOnlyInRoomOfAskedWorld ==
  \A r \in DOMAIN rooms : rooms[r].other = 0

\* C9: at most one live room exists for a world id
OneRoomPerWorld ==
  \A r1, r2 \in DOMAIN rooms :
    (r1 # r2 /\ rooms[r1].status = "open" /\ rooms[r2].status = "open")
      => rooms[r1].worldSaveId # rooms[r2].worldSaveId

\* C10: no input queue ever holds more than 10 inputs
QueueWithinCap ==
  \A s \in DOMAIN inputQueues : Len(inputQueues[s]) <= 10

\* C11: an input whose sequence number is missing, not an integer or not
\* positive, or whose direction is not of the enumeration, is not enqueued and
\* changes neither the room state nor any queue
MalformedInputChangesNothing ==
  [][\A message \in HalfMessages :
       LET malformed == \/ message.seqType # "number"
                        \/ message.sequenceNumber % 2 # 0   \* n / 2 is not whole
                        \/ message.sequenceNumber <= 0
                        \/ message.direction \notin Direction
       IN  (HandleInput(FloodSession, message) /\ malformed)
           => /\ inputQueues' = inputQueues
              /\ players' = players
              /\ playerOrder' = playerOrder]_vars

\* C12: within one session inputs are consumed in the order they arrived: an
\* input joins its queue behind everything queued, and a queue only ever loses
\* its head, to the tick that applies it
InputsConsumedInArrivalOrder ==
  [][\A s \in DOMAIN inputQueues \cap DOMAIN inputQueues' :
       LET queue == inputQueues[s]
           queueAfter == inputQueues'[s]
       IN  \/ queueAfter = queue
           \/ /\ Len(queueAfter) = Len(queue) + 1
              /\ SubSeq(queueAfter, 1, Len(queue)) = queue
           \/ /\ queue # <<>>
              /\ queueAfter = Tail(queue)
              /\ players'[s].lastProcessedSequenceNumber = Head(queue).sequenceNumber]_vars

\* input 2 arrived before input 1 of the same session, and only input 2 has
\* been applied
FirstArrivedAppliedFirst ==
  \E s \in DOMAIN players :
    /\ players[s].lastProcessedSequenceNumber = 2
    /\ lastMoved[s] # "none"
    /\ Len(inputQueues[s]) = 1
    /\ inputQueues[s][1].sequenceNumber = 1

\* C13: an input that has been accepted into the queue of a session is
\* followed, if the session stays, by a state in which the session's
\* lastProcessedSequenceNumber is the sequence number of that input
AcceptedInputEventuallyAcknowledged ==
  \A s \in Sessions, n \in 1..MaxSeq :
    (/\ s \in DOMAIN inputQueues
     /\ \E i \in 1..Len(inputQueues[s]) : inputQueues[s][i].sequenceNumber = n)
    ~> (\/ s \notin DOMAIN players
        \/ players[s].lastProcessedSequenceNumber = n)

\* a session stayed, two inputs of it were accepted and applied, and the
\* number acknowledged is that of the one applied last
BothAcceptedInputsAcknowledged ==
  \E s \in DOMAIN players :
    /\ inputsSent = 2
    /\ inputQueues[s] = <<>>
    /\ players[s].lastProcessedSequenceNumber = 1
    /\ players[s].y = TOWN_MAP.spawnY - 2

\* C14: the position reconcile returns is the position the server's ticks
\* reach once they have consumed exactly the inputs numbered above the
\* acknowledged sequence number
ReconcileReachesServerPosition ==
  (/\ reconciled.valid
   /\ FloodSession \in DOMAIN players
   /\ inputQueues[FloodSession] = <<>>)
  => /\ players[FloodSession].x = reconciled.x
     /\ players[FloodSession].y = reconciled.y

\* the client replayed two unconfirmed predictions, one of them blocked, and
\* the ticks have since consumed both inputs
ReplayedTwoAndServerCaughtUp ==
  /\ reconciled.valid
  /\ Len(buffer) = 2
  /\ inputQueues[FloodSession] = <<>>
  /\ players[FloodSession].lastProcessedSequenceNumber = buffer[2].sequenceNumber
  /\ lastMoved[FloodSession] = "blocked"
  /\ players[FloodSession].x = 2 /\ players[FloodSession].y = 1

\* C15: onLeave called for a session that is no longer in the room leaves
\* every variable of the room as it was and starts no save
SecondOnLeaveChangesNothing ==
  [][\A s \in Sessions :
       (OnLeave(s) /\ conn[s] = "closed")
       => UNCHANGED <<players, playerOrder, inputQueues, accountIdBySession,
                      characterIdBySession, joinCounter, hostAccountId,
                      autoSaveInterval, saving, disposed, characters,
                      pendingSaves>>]_vars

\* a session that had joined and left was handed to onLeave once more while
\* the save of its first onLeave is the only one in flight
OnLeaveRanTwice ==
  \E s \in Sessions :
    /\ conn[s] = "gone"
    /\ closeCode[s] = 0
    /\ Len(pendingSaves) = 1
    /\ pendingSaves[1].by = "onLeave"

\* C16: after onLeave of a session the room holds no player record and no
\* entry of inputQueues, accountIdBySession, characterIdBySession,
\* lastInputTime and idleWarned for it, hostSessionId is null if it was that
\* session, and what the room holds for the other sessions is unchanged
OnLeaveRemovesTheSessionOnly ==
  [][\A s \in Sessions :
       IdleOnLeave(s) =>
         LET kept(before, after, t) ==
               /\ (t \in DOMAIN after) = (t \in DOMAIN before)
               /\ t \in DOMAIN before => after[t] = before[t]
         IN  /\ s \notin DOMAIN players'
             /\ s \notin DOMAIN inputQueues'
             /\ s \notin DOMAIN accountIdBySession'
             /\ s \notin DOMAIN characterIdBySession'
             /\ s \notin DOMAIN lastInputTime'
             /\ s \notin idleWarned'
             /\ hostSessionId' = IF hostSessionId = s THEN "null" ELSE hostSessionId
             /\ \A t \in Sessions \ {s} :
                  /\ kept(players, players', t)
                  /\ kept(inputQueues, inputQueues', t)
                  /\ kept(accountIdBySession, accountIdBySession', t)
                  /\ kept(characterIdBySession, characterIdBySession', t)
                  /\ kept(lastInputTime, lastInputTime', t)
                  /\ (t \in idleWarned') = (t \in idleWarned)]_vars

\* the host, warned for idling, has left; the other player, warned as well,
\* is still in the room
WarnedHostLeftOtherStays ==
  \E s, t \in Sessions :
    /\ s # t
    /\ conn[s] = "closed"
    /\ sent[s] = <<"IDLE_WARNING">>
    /\ hostSessionId = "null"
    /\ t \in DOMAIN players
    /\ players[t].accountId # hostAccountId
    /\ t \in idleWarned

IdleCheckKicksAtTimeout ==
  /\ [][/\ CheckIdlePlayers =>
            \A s \in DOMAIN lastInputTime :
              conn[s] = "joined" =>
                IF now - lastInputTime[s] >= 15 * 60 * 1000
                  THEN /\ sent'[s] = Append(sent[s], "IDLE_KICK")
                       /\ closeCode'[s] = 4005
                       /\ conn'[s] = "kicked"
                       /\ s \in DOMAIN players'
                ELSE /\ conn'[s] = "joined"
                     /\ closeCode'[s] = closeCode[s]
                     /\ sent'[s] \in {sent[s], Append(sent[s], "IDLE_WARNING")}
       /\ \A s \in Sessions :
            (conn[s] = "kicked" /\ conn'[s] # "kicked") =>
              /\ IdleOnLeave(s)
              /\ s \notin DOMAIN players'
              /\ closeCode'[s] = 4005]_vars
  /\ \A s \in Sessions :
       (conn[s] = "kicked") ~> (conn[s] = "closed" /\ s \notin DOMAIN players)

\* a session was kicked without a warning in the check that kicked it and has
\* been removed by onLeave, while a session with a younger input is still in
\* the room, neither kicked nor warned
IdleKickedAndRemoved ==
  \E s, t \in Sessions :
    /\ conn[s] = "closed"
    /\ closeCode[s] = 4005
    /\ sent[s] = <<"IDLE_KICK">>
    /\ s \notin DOMAIN players
    /\ conn[t] = "joined"
    /\ t \in DOMAIN players
    /\ sent[t] = <<>>

\* C19: an idle check sends IDLE_WARNING to a session exactly when its last
\* input is at least 14 and less than 15 minutes old and the session is not in
\* idleWarned, and then adds it to idleWarned; a session leaves idleWarned
\* only by an input of its own or by leaving, so that it is warned at most
\* once between two resets of its idle timer
IdleWarningOncePerIdlePeriod ==
  [][/\ CheckIdlePlayers =>
          \A s \in DOMAIN lastInputTime :
            conn[s] = "joined" =>
              LET elapsed == now - lastInputTime[s]
                  due == /\ elapsed >= 14 * 60 * 1000
                         /\ elapsed < 15 * 60 * 1000
                         /\ s \notin idleWarned
              IN  IF due
                    THEN /\ sent'[s] = Append(sent[s], "IDLE_WARNING")
                         /\ s \in idleWarned'
                  ELSE /\ sent'[s] # Append(sent[s], "IDLE_WARNING")
                       /\ (s \in idleWarned') = (s \in idleWarned)
     /\ \A s \in Sessions :
          /\ sent'[s] = Append(sent[s], "IDLE_WARNING") =>
               s \notin idleWarned /\ s \in idleWarned'
          /\ (s \in idleWarned /\ s \notin idleWarned') =>
               \/ IdleOnLeave(s)
               \/ \E message \in IdleMessages : IdleHandleInput(s, message)]_vars

\* a session was warned, reset its idle timer with an input half a minute
\* later, and was warned again 14 minutes after that input
WarnedAgainAfterReset ==
  \E s \in DOMAIN lastInputTime :
    /\ sent[s] = <<"IDLE_WARNING", "IDLE_WARNING">>
    /\ lastInputTime[s] = 14 * 60 * 1000 + 30000
    /\ now - lastInputTime[s] = 14 * 60 * 1000
    /\ s \in idleWarned

\* C20: an input that is well-formed and comes from a session in the state
\* sets lastInputTime of the session to the time of arrival and takes the
\* session out of idleWarned, stale or not; a malformed input (sequence number
\* missing or not positive, direction not of the enumeration) and an input of
\* a session not in the state leave lastInputTime and idleWarned as they were
OnlyWellFormedInputResetsIdle ==
  [][\A s \in Sessions, message \in IdleMessages :
       IdleHandleInput(s, message) =>
         LET malformed == \/ message.seqType # "number"
                          \/ message.sequenceNumber <= 0
                          \/ message.direction \notin Direction
         IN  IF ~malformed /\ s \in DOMAIN players
               THEN /\ lastInputTime' = MapSet(lastInputTime, s, now)
                    /\ idleWarned' = idleWarned \ {s}
             ELSE /\ lastInputTime' = lastInputTime
                  /\ idleWarned' = idleWarned]_vars

\* ---------------------------------------------------------------------------
\* C21: with the idle check firing every 30 s, a session gets its IDLE_WARNING
\* when 14:00 <= elapsed < 14:30 and is kicked when 15:00 <= elapsed < 15:30,
\* elapsed counted from its last idle reset: no kick comes before 15:00, a
\* session still connected at 14:30 has been warned, and no session is still
\* connected (not yet closed with 4005) at 15:30.
\* ---------------------------------------------------------------------------
IdleWindowsWithTimedChecks ==
  /\ [][\A s \in Sessions :
          sent'[s] # sent[s] =>
            LET elapsed == now - lastInputTime[s]
                message == sent'[s][Len(sent'[s])]
            IN  /\ message = "IDLE_WARNING" => elapsed >= 840000 /\ elapsed < 870000
                /\ message = "IDLE_KICK" => elapsed >= 900000 /\ elapsed < 930000]_vars
  /\ [](\A s \in DOMAIN lastInputTime :
          /\ conn[s] = "kicked" => now - lastInputTime[s] >= 900000
          /\ conn[s] = "joined" /\ now - lastInputTime[s] >= 870000 => s \in idleWarned
          /\ conn[s] = "joined" => now - lastInputTime[s] < 930000)

\* a session whose last reset fell between two checks was warned and then
\* kicked 15 min 15 s after the reset
WarnedThenKickedOffTheGrid ==
  /\ conn[FloodSession] = "kicked"
  /\ FloodSession \in DOMAIN lastInputTime
  /\ lastInputTime[FloodSession] > 0
  /\ now - lastInputTime[FloodSession] = 915000
  /\ sent[FloodSession] = <<"IDLE_WARNING", "IDLE_KICK">>

\* ---------------------------------------------------------------------------
\* C22: every disposal of the room after its last player has left starts a
\* final save, also when an auto-save is in flight at that moment
\* ---------------------------------------------------------------------------
FinalSaveOnEveryDispose ==
  [][/\ ~disposed /\ disposed'
     /\ \E s \in Sessions : conn[s] \in {"closed", "gone"} /\ closeCode[s] = 0
     =>
       /\ Len(pendingSaves') = Len(pendingSaves) + 1
       /\ pendingSaves'[Len(pendingSaves')].by = "onDispose"]_vars

SavingFlagFollowsTheSave ==
  /\ [](saving <=> \E i \in 1..Len(pendingSaves) :
                       pendingSaves[i].by \in {"autoSave", "onDispose"})
  /\ [][\A i \in 1..Len(pendingSaves), ok \in BOOLEAN :
          LoggedSaveSettles /\ pendingSaves' = removeAt(pendingSaves, i)
            /\ pendingSaves[i].by \in {"autoSave", "onDispose"}
            /\ saveLog' = saveLogLine(pendingSaves[i].by, ok)
          => /\ ~saving'
             /\ players' = players
             /\ playerOrder' = playerOrder
             /\ inputQueues' = inputQueues
             /\ conn' = conn
             /\ ~ok => characters' = characters]_vars
  /\ [][AutoSaveFires /\ ~saving =>
          /\ saving'
          /\ Len(pendingSaves') = Len(pendingSaves) + 1
          /\ pendingSaves'[Len(pendingSaves')].by = "autoSave"]_vars

\* an auto-save failed, and the auto-save after it is in flight with the
\* position the failed one did not store
NewAutoSaveAfterFailedOne ==
  /\ saveLog = "Auto-save failed"
  /\ saving
  /\ Len(pendingSaves) = 1
  /\ pendingSaves[1].by = "autoSave"
  /\ FloodSession \in DOMAIN players
  /\ players[FloodSession].y = 15
  /\ characters["acctA"].position_y = 16

\* ---------------------------------------------------------------------------
\* C25: the join of a token that does not decode is closed with 4001 and
\* changes nothing in the room: the step leaves players, input queues, both
\* session maps, the join counter, the host account and the host session as
\* they were, and a session closed with 4001 never has an entry in any of them
\* ---------------------------------------------------------------------------
BadTokenJoinChangesNothing ==
  /\ [][\A s \in Sessions :
          closeCode'[s] = 4001 /\ closeCode[s] # 4001 =>
            /\ conn'[s] = "closed"
            /\ players' = players
            /\ playerOrder' = playerOrder
            /\ inputQueues' = inputQueues
            /\ accountIdBySession' = accountIdBySession
            /\ characterIdBySession' = characterIdBySession
            /\ joinCounter' = joinCounter
            /\ hostAccountId' = hostAccountId
            /\ hostSessionId' = hostSessionId
            /\ lastInputTime' = lastInputTime
            /\ idleWarned' = idleWarned
            /\ characters' = characters
            /\ pendingSaves' = pendingSaves]_vars
  /\ [](\A s \in Sessions :
          closeCode[s] = 4001 =>
            /\ s \notin DOMAIN players
            /\ s \notin DOMAIN inputQueues
            /\ s \notin DOMAIN accountIdBySession
            /\ s \notin DOMAIN characterIdBySession
            /\ s \notin DOMAIN lastInputTime
            /\ hostSessionId # s)

\* a bad-token join was turned away from a room in which the host plays
BadTokenTurnedAwayFromWarmRoom ==
  \E s, h \in Sessions :
    /\ closeCode[s] = 4001
    /\ hostSessionId = h
    /\ h \in DOMAIN players
    /\ joinCounter = 1

\* ---------------------------------------------------------------------------
\* C26: when getWorld finds no row for the world of a room that is being
\* created, onCreate aborts: the room is not registered and the client whose
\* joinOrCreate started it is closed with code 4003
\* ---------------------------------------------------------------------------
WorldNotFoundClosesWith4003 ==
  [][\A r \in DOMAIN rooms :
       /\ RegOnCreateSettles
       /\ rooms[r].status = "creating"
       /\ ~getWorld(rooms[r].worldSaveId).found
       /\ r \notin DOMAIN rooms'
       => /\ rooms' = MapDelete(rooms, r)
          /\ joinResult' = [outcome |-> "closed", code |-> 4003]]_vars

\* ---------------------------------------------------------------------------
\* C27: no room ever holds more than MAX_PARTY_SIZE = 8 players, and a join
\* asked for the world of a room that holds 8 sessions, joined or joining, is
\* refused: the client gets no seat in any room and no room is started for it
\* ---------------------------------------------------------------------------
PartyNeverExceedsEight ==
  /\ [](\A r \in DOMAIN rooms : roomClients(rooms[r]) <= 8)
  /\ [][\A r \in DOMAIN rooms, a \in Accounts :
          roomClients(rooms[r]) = 8 /\ JoinOrCreate(a, rooms[r].worldSaveId)
            => rooms' = rooms]_vars

\* ---------------------------------------------------------------------------
\* C28: called from an in-bounds position, the movement evaluator returns the
\* position unchanged with moved = false when the target tile lies outside
\* the map or is not passable, and the target with moved = true otherwise,
\* the target being one tile UP (0,-1), DOWN (0,+1), LEFT (-1,0) or
\* RIGHT (+1,0); the map is as it was after the call
\* ---------------------------------------------------------------------------
TryMoveAsSpecified ==
  /\ [](moveLast.called =>
          LET tx == moveLast.x + (CASE moveLast.direction = "left" -> -1
                                    [] moveLast.direction = "right" -> 1
                                    [] OTHER -> 0)
              ty == moveLast.y + (CASE moveLast.direction = "up" -> -1
                                    [] moveLast.direction = "down" -> 1
                                    [] OTHER -> 0)
              inBounds == tx >= 0 /\ tx < moveMap.width /\ ty >= 0 /\ ty < moveMap.height
              blocked == ~inBounds \/ moveMap.tiles[ty + 1][tx + 1] # GROUND
          IN  moveLast.result =
                IF blocked THEN [x |-> moveLast.x, y |-> moveLast.y, moved |-> FALSE]
                ELSE [x |-> tx, y |-> ty, moved |-> TRUE])
  /\ [](movePos.x \in 0..(moveMap.width - 1) /\ movePos.y \in 0..(moveMap.height - 1))
  /\ [][moveMap' = moveMap]_vars

\* on a map of three columns and two rows whose only ground is the far end of
\* the second row, the move down onto it succeeded
MovedDownOntoTheOnlyGround ==
  /\ moveMap.width = 3
  /\ moveMap.height = 2
  /\ \A y \in 1..2, x \in 1..3 : moveMap.tiles[y][x] = GROUND <=> (y = 2 /\ x = 3)
  /\ moveLast.called
  /\ moveLast.direction = "down"
  /\ moveLast.x = 2
  /\ moveLast.y = 0
  /\ moveLast.result = [x |-> 2, y |-> 1, moved |-> TRUE]

\* ---------------------------------------------------------------------------
\* C29: saveAll is atomic. The statement with which a call resolves leaves
\* world_data equal to the given world data and every listed character at the
\* listed position, and the rows of the characters not listed as they were;
\* every other statement of a call, the one with which it rejects included,
\* leaves world_data and every character row as they were
\* ---------------------------------------------------------------------------
SaveAllAllOrNothing ==
  [][(/\ txn.phase \in {"connect", "begin", "world", "characters", "commit",
                        "rollback"}
      /\ (txn'.phase # txn.phase \/ txn'.todo # txn.todo))
     => IF txn'.phase = "resolved"
          THEN /\ worldData' = JSONstringify(txn.worldData)
               /\ \A i \in 1..Len(txn.characters) :
                    \E a \in Accounts :
                      /\ characters'[a].exists
                      /\ characters'[a].id = txn.characters[i].characterId
                      /\ characters'[a].position_x = txn.characters[i].x
                      /\ characters'[a].position_y = txn.characters[i].y
               /\ \A a \in Accounts :
                    (\A i \in 1..Len(txn.characters) :
                       txn.characters[i].characterId # characterIdOf(a))
                    => characters'[a] = characters[a]
        ELSE /\ worldData' = worldData
             /\ characters' = characters]_vars

\* ---------------------------------------------------------------------------
\* C30: hostAccountId is the owner of the persisted world, as onCreate set it,
\* and no join, input, leave, tick, timer or save ever changes it, whoever
\* joins with whatever token
\* ---------------------------------------------------------------------------
HostAccountFixedAtCreate ==
  /\ [](hostAccountId = WorldOwner[RoomWorldId])
  /\ [][hostAccountId' = hostAccountId]_vars

\* the owner has left and another account plays on alone in the room
GuestPlaysOnAfterHostLeft ==
  \E s, h \in Sessions :
    /\ DOMAIN players = {s}
    /\ players[s].accountId # WorldOwner[RoomWorldId]
    /\ conn[h] = "closed"
    /\ closeCode[h] = 0
    /\ joinCounter = 2

\* ---------------------------------------------------------------------------
\* C31: hostSessionId is null when no player of the host account is in the
\* state, and otherwise names a player in the state whose account is the
\* host account
\* ---------------------------------------------------------------------------
HostSessionTracksHost ==
  LET hostSessions == {s \in DOMAIN players : players[s].accountId = hostAccountId}
  IN  IF hostSessions = {} THEN hostSessionId = "null"
      ELSE hostSessionId \in hostSessions

\* ---------------------------------------------------------------------------
\* C32: a player record enters the state complete: its sessionId is its key,
\* its accountId is the account the session authenticated as, its name is not
\* empty, its position is the one of the account's character row, or the
\* spawn point when the character is created by this join, and its
\* lastProcessedSequenceNumber is 0; sessionId, accountId and name of a
\* record in the state never change
\* ---------------------------------------------------------------------------
PlayerRecordInsertedComplete ==
  [][/\ \A s \in DOMAIN players' \ DOMAIN players :
          LET player == players'[s]
              row == characters[joining[s].accountId]
          IN  /\ player.sessionId = s
              /\ player.accountId = joining[s].accountId
              /\ player.accountId = accountIdBySession'[s]
              /\ Len(player.name) > 0
              /\ player.lastProcessedSequenceNumber = 0
              /\ IF row.exists
                    THEN player.x = row.position_x /\ player.y = row.position_y
                  ELSE player.x = 16 /\ player.y = 16
     /\ \A s \in DOMAIN players' \cap DOMAIN players :
          /\ players'[s].sessionId = players[s].sessionId
          /\ players'[s].accountId = players[s].accountId
          /\ players'[s].name = players[s].name]_vars

\* a character created from a blank name carries the email as its name, and
\* its player has moved on from the spawn point
BlankNamedPlayerHasMoved ==
  \E s \in DOMAIN players :
    /\ players[s].accountId = "acctB"
    /\ players[s].name = <<"b">>
    /\ players[s].y = 15
    /\ players[s].lastProcessedSequenceNumber > 0

\* ---------------------------------------------------------------------------
\* C33: the result of a tick does not depend on the order in which the
\* players are visited: from every state, visiting them in any order gives
\* the same players and the same queues
\* ---------------------------------------------------------------------------
TickOrderDoesNotMatter ==
  LET st == [players |-> players, inputQueues |-> inputQueues, lastMoved |-> lastMoved]
      n == Len(playerOrder)
      orders == {[i \in 1..n |-> playerOrder[perm[i]]] :
                   perm \in {f \in [1..n -> 1..n] : \A i, j \in 1..n : i # j => f[i] # f[j]}}
  IN  \A order \in orders :
        /\ tickEach(order, st).players = tickEach(playerOrder, st).players
        /\ tickEach(order, st).inputQueues = tickEach(playerOrder, st).inputQueues

\* one tick has moved two players from the spawn tile onto the same tile
TwoPlayersMovedOntoOneTile ==
  \E s1, s2 \in DOMAIN players :
    /\ s1 # s2
    /\ players[s1].x = 16 /\ players[s1].y = 15
    /\ players[s2].x = 16 /\ players[s2].y = 15
    /\ lastMoved[s1] = "moved"
    /\ lastMoved[s2] = "moved"
    /\ players[s1].lastProcessedSequenceNumber > 0
    /\ players[s2].lastProcessedSequenceNumber > 0

\* ---------------------------------------------------------------------------
\* C34: every input a tick consumes has a sequence number greater than the
\* lastProcessedSequenceNumber its player has at that moment, so each
\* consumed input raises lastProcessedSequenceNumber and no number is applied
\* to a player twice
\* ---------------------------------------------------------------------------
ConsumedInputIsNewer ==
  [][TickFires =>
       \A s \in DOMAIN players :
         (s \in DOMAIN inputQueues /\ inputQueues[s] # <<>>) =>
           /\ Head(inputQueues[s]).sequenceNumber > players[s].lastProcessedSequenceNumber
           /\ players'[s].lastProcessedSequenceNumber >
                players[s].lastProcessedSequenceNumber]_vars

\* C35: an input message from a session that has no PlayerRecord, because its
\* onJoin has not inserted it yet or its onLeave has removed it, is discarded:
\* it creates no input queue, no PlayerRecord and no idle-tracking entry, and it
\* changes nothing else of the room either.
InputWithoutPlayerIsDiscarded ==
  [][StrayInput =>
       /\ UNCHANGED <<players, playerOrder, inputQueues, lastInputTime, idleWarned,
                      accountIdBySession, characterIdBySession, hostSessionId,
                      conn, closeCode, sent, characters, pendingSaves>>
       /\ \A s \in Sessions :
            s \notin DOMAIN players =>
              /\ s \notin DOMAIN inputQueues'
              /\ s \notin DOMAIN players'
              /\ s \notin DOMAIN lastInputTime'
              /\ s \notin idleWarned']_vars

\* well-formed inputs have arrived while a join was waiting for its character
\* and nobody has been seated yet
InputArrivedBeforeAnyoneWasSeated ==
  /\ inputsSent = MaxInputs
  /\ inputLog = "none"
  /\ \E s \in Sessions : conn[s] = "getCharacter"
  /\ \A s \in Sessions : conn[s] \in {"none", "getCharacter"}
  /\ players = EmptyMap
  /\ inputQueues = EmptyMap
  /\ lastInputTime = EmptyMap

\* C36: the PredictionBuffer never holds more than 60 entries; adding to a
\* buffer of 60 drops the oldest entry and keeps the others with the new one
\* behind them; and right after reconcile with acknowledged sequence number k
\* the buffer holds only entries with a sequence number above k: those of the
\* former buffer, all of them, in the order they had there.
PredictionBufferCappedAndTrimmed ==
  /\ [](Len(buffer) <= MAX_SIZE)
  /\ [][(PredictionAdded /\ Len(buffer) = MAX_SIZE) =>
          /\ Len(buffer') = MAX_SIZE
          /\ SubSeq(buffer', 1, MAX_SIZE - 1) = Tail(buffer)
          /\ buffer'[MAX_SIZE].sequenceNumber = inputsSent']_vars
  /\ [][(/\ inputsSent' = inputsSent
          /\ reconciled'.valid
          /\ PredictionsReconciled(reconciled'.serverLastProcessedSeq)) =>
          LET k == reconciled'.serverLastProcessedSeq IN
            /\ \A i \in 1..Len(buffer') : buffer'[i].sequenceNumber > k
            /\ buffer' = SelectSeq(buffer, LAMBDA p : p.sequenceNumber > k)]_vars

\* a scene that has never reconciled has added 62 predictions and holds the
\* last 60 of them
OldestTwoPredictionsEvicted ==
  /\ inputsSent = 62
  /\ ~reconciled.valid
  /\ Len(buffer) = MAX_SIZE
  /\ buffer[1].sequenceNumber = 3
  /\ buffer[MAX_SIZE].sequenceNumber = 62

\* C37: in every reachable state the sessions that have an input queue are
\* the sessions that have a PlayerRecord, and every session with a PlayerRecord
\* has an entry in the session-to-account map, equal to the accountId of its
\* record, and an entry in the session-to-character map.
SessionMapsCoverPlayers ==
  /\ DOMAIN inputQueues = DOMAIN players
  /\ \A s \in DOMAIN players :
       /\ s \in DOMAIN accountIdBySession
       /\ accountIdBySession[s] = players[s].accountId
       /\ s \in DOMAIN characterIdBySession

\* one player has left after playing, the other is seated with an input queued
OnePlayerLeftOneQueued ==
  /\ DOMAIN players = {"s2"}
  /\ inputQueues["s2"] # <<>>
  /\ conn["s1"] = "closed"
  /\ closeCode["s1"] = 0

\* C39: with the idle check firing every 30 s, an IDLE_KICK goes only to a
\* session that has been sent an IDLE_WARNING since its last idle reset: the
\* session is marked as warned when it is kicked, the message sent to it before
\* the kick is the warning, and every idle reset takes the mark away.
KickOnlyAfterWarning ==
  [][\A s \in Sessions :
       /\ (sent'[s] # sent[s] /\ sent'[s][Len(sent'[s])] = "IDLE_KICK") =>
            /\ s \in idleWarned
            /\ sent[s] # <<>>
            /\ sent[s][Len(sent[s])] = "IDLE_WARNING"
       /\ (/\ s \in DOMAIN lastInputTime
           /\ s \in DOMAIN lastInputTime'
           /\ lastInputTime'[s] # lastInputTime[s]) => s \notin idleWarned']_vars

\* the client played for a while after the first idle checks, then fell
\* silent, was warned and has been kicked
KickedAfterPlayingAndWarning ==
  /\ conn[FloodSession] = "kicked"
  /\ inputsSent = MaxInputs
  /\ FloodSession \in DOMAIN lastInputTime
  /\ lastInputTime[FloodSession] >= 2 * IDLE_CHECK_INTERVAL_MS
  /\ sent[FloodSession] = <<"IDLE_WARNING", "IDLE_KICK">>

\* C40: once a player has left and the save started by the leave has completed
\* successfully, which writes the position the player had at onLeave, the
\* persisted position of the character stays what it is: no save of the room
\* that was in flight at the leave changes it when it completes.
LeavePositionStaysPersisted ==
  [][(/\ conn[FloodSession] \in {"closed", "gone"}
      /\ closeCode[FloodSession] = 0
      /\ saveLog # "Failed to save character on leave"
      /\ \A i \in 1..Len(pendingSaves) : pendingSaves[i].by # "onLeave")
     => characters' = characters]_vars

====
